---- MODULE Spec2Model ----
(***************************************************************************)
(* Model of the MathViz pipeline orchestration layer:                      *)
(*   generator/validator.py   beat and outline validation                  *)
(*   generator/planner.py     two-phase plan generation with retries       *)
(*   tts/sarvam.py            per-beat concurrent audio synthesis          *)
(*   narration/audio_cache.py the content-addressed audio cache            *)
(*   renderer/render_engine.py  bounded-concurrency render scheduler       *)
(*   main.py                  the job pipeline (merge and concatenation)   *)
(*                                                                         *)
(* Each component has its own specification (SpecPlan, SpecRender,         *)
(* SpecAudio, SpecCache, SpecCompose, SpecPipeline); the variables of the  *)
(* other components stay at their idle values.  Python strings that are   *)
(* only compared are TLA+ strings; strings that are scanned, searched or   *)
(* joined (LaTeX, class names, exception messages, narration, cache keys)  *)
(* are sequences of one-character strings.                                 *)
(***************************************************************************)
EXTENDS Integers, Sequences, FiniteSets, TLC

VARIABLES
    \* ---- generator/planner.py + main.py steps 1-2 ----
    plan_pc,          \* position in generate_scene_plan
    duration_mins,    \* request.duration_mins
    outline_calls,    \* completion calls made by generate_outline
    outline_failures, \* attempts of generate_outline that ended in its except clause
    outline,          \* the outline generate_outline returned, or NoOutline
    ch_calls,         \* per chapter: completion calls made so far
    ch_failures,      \* per chapter: attempts that ended in the except clause
    ch_result,        \* per chapter: Pending, or Returned(the beat list)
    finish_order,     \* chapter indexes in the order their coroutines returned
    beats,            \* plan["beats"] as returned by generate_scene_plan
    validation_errors,\* main.py: errors = validate_beats(beats)
    fn_call,          \* a function of generator/ applied on its own: its
                      \* name, argument and result (SpecFunctions)
    status,           \* _jobs[job_id]["status"]
    job,              \* the other fields of _jobs[job_id] set by _run_pipeline
    \* ---- renderer/render_engine.py: render_all_parallel ----
    tasks,            \* the tasks argument: sequence of (seg_id, class_name)
    max_workers,      \* the max_workers argument
    sem,              \* asyncio.Semaphore value (free slots)
    rstate,           \* per task: "waiting" | "running" | "done"
    routcome,         \* per task: what its coroutine produced
    render_pc,        \* "gather" | "returned"
    rendered,         \* returned success map  seg_id -> mp4 path
    errors,           \* returned error map    key -> message
    \* ---- tts/sarvam.py: generate_all_audio ----
    abeats,           \* the beats argument
    astate,           \* per beat: "pending" | "synth" | "ok" | "failed"
    aresult,          \* per beat: the (bid, clip) pair _generate_one returned
    audio_pc,         \* "gather" | "returned"
    audio_clips,      \* returned map beat_id -> clip
    manifest,         \* AudioCache.manifest: key -> entry
    blobs,            \* cached audio files: key -> bytes
    wav_files,        \* beat_ids whose <bid>.wav was written to audio_dir
    manifest_file,    \* manifest.json in the cache directory: key -> entry
    acalls,           \* per beat: the calls generate_audio_async has made
    \* ---- narration/audio_cache.py driven directly (SpecCache) ----
    cache_log,        \* the AudioCache calls made so far, with their results
    stored,           \* (text, voice, language) -> clip put and not removed since
    job_caches,       \* the AudioCache objects of two concurrent jobs (SpecSharedCache)
    \* ---- main.py steps 6-7: merge and concatenation ----
    cbeats,           \* beat_order of the plan being composed
    merge_tasks,      \* bids of the merge coroutines, in creation order
    merge_result,     \* per merge task: "pending" | "ok" | "exc"
    merge_finish,     \* merge task indexes in completion order
    compose_pc,       \* "render" | "merging" | "concat" | "completed" | "failed"
    final_segments,   \* bids of the segments handed to concat_segments
    \* ---- main.py steps 3-6: the timing data threaded through the job ----
    min_beat_duration,\* settings.min_beat_duration
    durations,        \* main.py: durations   beat_id -> seconds
    audio_paths,      \* main.py: beat_ids that have an entry in audio_paths
    scene_duration,   \* per render task: total_duration written into its scene
    merge_mode,       \* per merge task: "none" | "copy" | "pad" | "trim"
    ffmpeg_calls,     \* the ffmpeg invocations of steps 6-7, in order
    \* ---- renderer/composer.py and composer/ffmpeg_merge.py (SpecComposer) ----
    comp_call         \* <<>>, or <<the last composer call and what it did>>

planState   == <<plan_pc, duration_mins, outline_calls, outline_failures, outline,
                 ch_calls, ch_failures, ch_result, finish_order, beats,
                 validation_errors, fn_call>>
planVars    == <<planState, status, job>>
renderVars  == <<tasks, max_workers, sem, rstate, routcome, render_pc,
                 rendered, errors>>
cacheVars   == <<cache_log, stored, job_caches>>
audioVars   == <<abeats, astate, aresult, audio_pc, audio_clips,
                 manifest, blobs, wav_files, manifest_file, acalls, cacheVars>>
syncVars    == <<min_beat_duration, durations, audio_paths, scene_duration,
                 merge_mode>>
composeVars == <<cbeats, merge_tasks, merge_result, merge_finish,
                 compose_pc, final_segments, syncVars, ffmpeg_calls, comp_call>>
vars        == <<planVars, renderVars, audioVars, composeVars>>

(***************************************************************************)
(* Generic helpers                                                         *)
(***************************************************************************)
RECURSIVE SumLen(_, _)
SumLen(f, n) == IF n = 0 THEN 0 ELSE Len(f[n]) + SumLen(f, n - 1)

\* dict.get(key, default) on a record/function
Get(d, key, default) == IF key \in DOMAIN d THEN d[key] ELSE default

\* Python's None
None == "None"

\* str.strip() on a character sequence
RECURSIVE LStrip(_)
LStrip(t) == IF t # <<>> /\ Head(t) = " " THEN LStrip(Tail(t)) ELSE t

RECURSIVE RStrip(_)
RStrip(t) ==
    IF t # <<>> /\ t[Len(t)] = " " THEN RStrip(SubSeq(t, 1, Len(t) - 1)) ELSE t

Strip(t) == RStrip(LStrip(t))

\* s.startswith(prefix)
StartsWith(t, prefix) ==
    Len(t) >= Len(prefix) /\ SubSeq(t, 1, Len(prefix)) = prefix

\* the start positions of the occurrences of sep in t
Occurrences(t, sep) ==
    { k \in 1..(Len(t) - Len(sep) + 1) : SubSeq(t, k, k + Len(sep) - 1) = sep }

SetMin(S) == CHOOSE x \in S : \A y \in S : x <= y

SetMax(S) == CHOOSE x \in S : \A y \in S : x >= y

(***************************************************************************)
(* generator/validator.py                                                  *)
(***************************************************************************)
ALLOWED_BEAT_TYPES ==
    { "title_card", "equation_reveal", "equation_transform", "highlight",
      "step_reveal", "graph_plot", "graph_animate", "vector_show",
      "vector_transform", "matrix_display", "summary_card", "theorem_card",
      "text_card", "pause" }

REQUIRED_VISUAL_FIELDS ==
    [ title_card         |-> <<"title">>,
      equation_reveal    |-> <<"latex">>,
      equation_transform |-> <<"from_latex", "to_latex">>,
      highlight          |-> <<"target", "color">>,
      step_reveal        |-> <<"latex", "step_number">>,
      graph_plot         |-> <<"functions", "x_range", "y_range">>,
      graph_animate      |-> <<"function_expr", "parameter", "range">>,
      vector_show        |-> <<"vectors">>,
      vector_transform   |-> <<"matrix", "vectors">>,
      matrix_display     |-> <<"matrix_values">>,
      summary_card       |-> <<"key_points">>,
      theorem_card       |-> <<"theorem_name", "statement_latex">>,
      text_card          |-> <<"text">>,
      pause              |-> <<>> ]

\* _LATEX_FIELDS is a Python set; it is scanned here in one fixed order
LATEX_FIELDS == <<"latex", "from_latex", "to_latex", "target", "statement_latex">>

\* check_braces: latex is a sequence of characters
RECURSIVE BraceScan(_, _)
BraceScan(latex, depth) ==
    IF latex = <<>> THEN depth = 0
    ELSE LET d == IF Head(latex) = "{" THEN depth + 1
                  ELSE IF Head(latex) = "}" THEN depth - 1
                  ELSE depth
         IN  IF d < 0 THEN FALSE ELSE BraceScan(Tail(latex), d)

\* a check that only compares the numbers of opening and closing braces
check_braces_CountOnly(latex) ==
    Cardinality({ i \in DOMAIN latex : latex[i] = "{" })
      = Cardinality({ i \in DOMAIN latex : latex[i] = "}" })

check_braces(latex) == BraceScan(latex, 0)

\* str.strip() leaves nothing: the narration is empty or whitespace only
IsBlank(s) == s \in {"", " "}

\* validate_beat: a beat is a record; a missing or empty beat_id is "",
\* a missing or empty visual is the empty record <<>>
validate_beat(beat) ==
    LET bid    == beat.beat_id
        e1     == IF bid = "" THEN << <<"missing_beat_id">> >> ELSE <<>>
        e2     == IF IsBlank(beat.narration)
                  THEN << <<"empty_narration", bid>> >> ELSE <<>>
        visual == beat.visual
    IN  IF DOMAIN visual = {}
        THEN e1 \o e2 \o << <<"missing_visual", bid>> >>
        ELSE
          LET beat_type == Get(visual, "type", None) IN
          IF beat_type \notin ALLOWED_BEAT_TYPES
          THEN e1 \o e2 \o << <<"unknown_type", bid>> >>
          ELSE
            LET req == REQUIRED_VISUAL_FIELDS[beat_type]
                e3  == SelectSeq([i \in DOMAIN req |->
                                   IF req[i] \notin DOMAIN visual
                                   THEN <<"missing_field", bid, req[i]>>
                                   ELSE <<>>],
                                 LAMBDA x : x # <<>>)
                e4  == SelectSeq([i \in DOMAIN LATEX_FIELDS |->
                                   LET val == Get(visual, LATEX_FIELDS[i], <<>>) IN
                                   IF val # <<>> /\ ~check_braces(val)
                                   THEN <<"unbalanced", bid, LATEX_FIELDS[i]>>
                                   ELSE <<>>],
                                 LAMBDA x : x # <<>>)
            IN  e1 \o e2 \o e3 \o e4

\* validate_beats: duplicate detection with seen_ids, then per-beat validation
RECURSIVE ValidateBeatsFrom(_, _)
ValidateBeatsFrom(bs, seen_ids) ==
    IF bs = <<>> THEN <<>>
    ELSE LET bid == Head(bs).beat_id
             dup == IF bid # "" /\ bid \in seen_ids
                    THEN << <<"duplicate_beat_id", bid>> >> ELSE <<>>
             seen2 == IF bid # "" THEN seen_ids \cup {bid} ELSE seen_ids
         IN  dup \o validate_beat(Head(bs)) \o ValidateBeatsFrom(Tail(bs), seen2)

\* a validation that only notices a beat_id repeated by the next beat
RECURSIVE ValidateBeatsFrom_AdjacentOnly(_, _)
ValidateBeatsFrom_AdjacentOnly(bs, seen_ids) ==
    IF bs = <<>> THEN <<>>
    ELSE LET bid == Head(bs).beat_id
             dup == IF bid # "" /\ bid \in seen_ids
                    THEN << <<"duplicate_beat_id", bid>> >> ELSE <<>>
         IN  dup \o validate_beat(Head(bs))
                 \o ValidateBeatsFrom_AdjacentOnly(Tail(bs), {bid})

validate_beats_AdjacentOnly(bs) == ValidateBeatsFrom_AdjacentOnly(bs, {})

validate_beats(bs) == ValidateBeatsFrom(bs, {})

\* validate_outline: an outline is [title, chapters]; a chapter is
\* [id, title, n_beats] with "" for a missing id/title; n_beats is <<n>>,
\* or <<>> when the key is missing
RECURSIVE ValidateChaptersFrom(_, _, _)
ValidateChaptersFrom(chs, i, seen_ids) ==
    IF chs = <<>> THEN <<>>
    ELSE LET ch   == Head(chs)
             eid  == IF ch.id = "" THEN << <<"chapter_missing_id", i>> >>
                     ELSE IF ch.id \in seen_ids
                          THEN << <<"duplicate_chapter_id", ch.id>> >>
                          ELSE <<>>
             seen2 == IF ch.id # "" /\ ch.id \notin seen_ids
                      THEN seen_ids \cup {ch.id} ELSE seen_ids
             et   == IF ch.title = "" THEN << <<"chapter_missing_title", i>> >>
                     ELSE <<>>
             en   == IF ch.n_beats = <<>>
                     THEN << <<"chapter_missing_n_beats", i>> >>
                     ELSE IF ch.n_beats[1] < 1
                          THEN << <<"chapter_bad_n_beats", i>> >>
                          ELSE <<>>
         IN  eid \o et \o en \o ValidateChaptersFrom(Tail(chs), i + 1, seen2)

validate_outline(o) ==
    LET e1 == IF o.title = "" THEN << <<"outline_missing_title">> >> ELSE <<>>
    IN  IF o.chapters = <<>>
        THEN e1 \o << <<"outline_no_chapters">> >>
        ELSE e1 \o ValidateChaptersFrom(o.chapters, 0, {})

(***************************************************************************)
(* generator/planner.py                                                    *)
(***************************************************************************)
MAX_CHAPTER_RETRIES == 3
MAX_OUTLINE_RETRIES == 3
max_beats_per_chapter == 5

\* Bounds of the model
MaxGoodBeats == 2     \* beats in a chapter response that follows the prompt

NoOutline == [title |-> "", chapters |-> <<>>]
\* a chapter coroutine that has not returned yet / that returned list bs
Pending      == [returned |-> FALSE, beats |-> <<>>]
Returned(bs) == [returned |-> TRUE, beats |-> bs]

\* Python round(n / d) for n >= 0, d > 0: round half to even
PyRoundDiv(n, d) ==
    LET q == n \div d
        r == n % d
    IN  IF 2 * r < d THEN q
        ELSE IF 2 * r > d THEN q + 1
        ELSE IF q % 2 = 0 THEN q ELSE q + 1

Max2(a, b) == IF a >= b THEN a ELSE b
Min2(a, b) == IF a <= b THEN a ELSE b

\* generate_outline: target_beats and min_chapters
target_beats(d) == Max2(12, PyRoundDiv(d * 60, 15))
min_chapters(d) == Min2(6, Max2(3, PyRoundDiv(target_beats(d), max_beats_per_chapter)))

\* ---- _strip_fences: raw is a sequence of characters; "#" is written for
\* the backtick and " " for any whitespace ----
FENCE == <<"#", "#", "#">>

\* parts = raw.split(FENCE, 2) of a text that starts with a fence: parts[0]
\* is empty and parts[1] runs up to the next fence, or to the end
SecondPart(raw) ==
    LET rest == SubSeq(raw, 4, Len(raw)) IN
    IF Occurrences(rest, FENCE) = {} THEN rest
    ELSE SubSeq(rest, 1, SetMin(Occurrences(rest, FENCE)) - 1)

\* inner.rsplit(FENCE, 1)[0]
BeforeLastFence(inner) ==
    IF Occurrences(inner, FENCE) = {} THEN inner
    ELSE SubSeq(inner, 1, SetMax(Occurrences(inner, FENCE)) - 1)

\* a stripper that leaves the whitespace around the payload
strip_fences_KeepInnerSpace(raw) ==
    LET r == Strip(raw) IN
    IF StartsWith(r, FENCE)
    THEN LET inner == SecondPart(r) IN
         BeforeLastFence(IF StartsWith(inner, <<"j", "s", "o", "n">>)
                         THEN SubSeq(inner, 5, Len(inner)) ELSE inner)
    ELSE r

strip_fences(raw) ==
    LET r == Strip(raw) IN
    IF StartsWith(r, FENCE)
    THEN LET inner == SecondPart(r) IN
         Strip(BeforeLastFence(IF StartsWith(inner, <<"j", "s", "o", "n">>)
                               THEN SubSeq(inner, 5, Len(inner)) ELSE inner))
    ELSE r

\* ---- what the completion service may answer to the outline prompt ----
Chapter(i) == [id |-> "c" \o ToString(i), title |-> "T" \o ToString(i), n_beats |-> <<1>>]
ChapterList(n) == [i \in 1..n |-> Chapter(i)]

OutlineJson(t, chs) == [kind |-> "json", title |-> t, chapters |-> chs]

OutlineSizes == {2, 3}

OutlineResponses ==
    { [kind |-> "raise",   title |-> "", chapters |-> <<>>],   \* client.complete raises
      [kind |-> "badjson", title |-> "", chapters |-> <<>>],   \* json.loads raises
      OutlineJson("T", <<>>),                                  \* no chapters
      OutlineJson("", ChapterList(3)),                         \* no title
      OutlineJson("T", <<Chapter(1), Chapter(1), Chapter(2)>>) \* duplicate chapter id
    } \cup { OutlineJson("T", ChapterList(n)) : n \in OutlineSizes }

\* generate_outline without the minimum chapter count check
OutlineAttemptOk_NoMinimum(r, d) ==
    /\ r.kind = "json"
    /\ validate_outline(r) = <<>>

\* One iteration of generate_outline's try block succeeds
OutlineAttemptOk(r, d) ==
    /\ r.kind = "json"
    /\ validate_outline(r) = <<>>
    /\ Len(r.chapters) >= min_chapters(d)

\* ---- what the completion service may answer to a chapter prompt ----
Beat(id) == [beat_id |-> id, narration |-> "n", visual |-> [type |-> "pause"]]

JArray(items) == [shape |-> "array", items |-> items, pairs |-> <<>>]
JObject(pairs) == [shape |-> "object", items |-> <<>>, pairs |-> pairs]
JScalar == [shape |-> "scalar", items |-> <<>>, pairs |-> <<>>]

\* the beats the prompt asks for: ids cid_1, cid_2, ...
GoodBeats(cid) == [k \in 1..MaxGoodBeats |-> Beat(cid \o "_" \o ToString(k))]

ChapterResponses(cid) ==
    { [kind |-> "raise",   value |-> JScalar],
      [kind |-> "badjson", value |-> JScalar],
      [kind |-> "json", value |-> JArray(GoodBeats(cid))],
      [kind |-> "json", value |-> JArray(<<Beat("b1")>>)],       \* ids not as instructed
      [kind |-> "json", value |-> JArray(<<Beat("x"), Beat("x")>>)],
      [kind |-> "json", value |-> JArray(<<>>)],
      [kind |-> "json", value |-> JObject(<< <<"beats", JArray(GoodBeats(cid))>> >>)],
      [kind |-> "json", value |-> JScalar] }

WRAPPER_KEYS == <<"beats", "chapter_beats", "items", "data">>

\* value of parsed.get(key): the first pair with that key, or JScalar for None
RECURSIVE ObjGet(_, _)
ObjGet(pairs, key) ==
    IF pairs = <<>> THEN JScalar
    ELSE IF Head(pairs)[1] = key THEN Head(pairs)[2]
    ELSE ObjGet(Tail(pairs), key)

\* the for/else over the wrapper keys in _generate_chapter_beats
RECURSIVE Unwrap(_, _)
Unwrap(parsed, keys) ==
    IF keys = <<>>
    THEN IF parsed.pairs # <<>> THEN parsed.pairs[1][2] ELSE JArray(<<>>)
    ELSE IF ObjGet(parsed.pairs, Head(keys)).shape = "array"
         THEN ObjGet(parsed.pairs, Head(keys))
         ELSE Unwrap(parsed, Tail(keys))

ParseChapter(value) ==
    IF value.shape = "object" THEN Unwrap(value, WRAPPER_KEYS) ELSE value

\* One iteration of _generate_chapter_beats's try block succeeds
ChapterAttemptOk(r) ==
    /\ r.kind = "json"
    /\ ParseChapter(r.value).shape = "array"
    /\ validate_beats(ParseChapter(r.value).items) = <<>>

\* a fallback that contributes no beat at all
FallbackBeats_Empty(ch) == <<>>

FallbackBeats(ch) ==
    << [beat_id   |-> ch.id \o "_1",
        narration |-> "This section covers " \o ch.title,
        visual    |-> [type |-> "text_card", text |-> ch.title]] >>

SeparatorBeat(i, ch, n_chapters) ==
    [beat_id   |-> "ch" \o ToString(i + 1) \o "_intro",
     narration |-> "Let us now move to the next part: " \o ch.title,
     visual    |-> [type |-> "title_card", title |-> ch.title,
                    subtitle |-> "Part " \o ToString(i + 1) \o " of " \o ToString(n_chapters)]]

ClosingBeat(o) ==
    [beat_id   |-> "closing_summary",
     narration |-> "And that is our complete journey through " \o o.title,
     visual    |-> [type |-> "summary_card",
                    key_points |-> [k \in DOMAIN o.chapters |-> o.chapters[k].title]]]

\* generate_scene_plan, assembly loop: i is Python's 0-based chapter index
RECURSIVE AssembleFrom(_, _, _)
AssembleFrom(i, chapters, lists) ==
    IF i >= Len(chapters) THEN <<>>
    ELSE (IF i > 0 THEN <<SeparatorBeat(i, chapters[i + 1], Len(chapters))>> ELSE <<>>)
         \o lists[i + 1]
         \o AssembleFrom(i + 1, chapters, lists)

\* assembly in the order in which the chapter coroutines finished
AssembleBeats_CompletionOrder(o, lists) ==
    AssembleFrom(0, o.chapters, [k \in DOMAIN lists |-> lists[finish_order[k]]])
      \o <<ClosingBeat(o)>>

\* an assembly that ends with the last chapter's beats
AssembleBeats_NoClosing(o, lists) == AssembleFrom(0, o.chapters, lists)

AssembleBeats(o, lists) == AssembleFrom(0, o.chapters, lists) \o <<ClosingBeat(o)>>

\* asyncio.gather(*chapter coroutines) has returned every chapter's list
AllChaptersReturned == \A i \in DOMAIN ch_result : ch_result[i].returned

\* chapter_beats_lists: the gather's results, in the order of the chapters
chapter_beats_lists == [i \in DOMAIN ch_result |-> ch_result[i].beats]

(***************************************************************************)
(* Idle values of each component's variables                               *)
(***************************************************************************)
\* _jobs[job_id] without the fields _run_pipeline sets: every field is
\* <<>> while unset and <<value>> once set
NoJob == [error |-> <<>>, total_beats |-> <<>>, render_errors |-> <<>>,
          beats_rendered |-> <<>>, beats_dropped |-> <<>>, drop_reasons |-> <<>>]

PlanIdle ==
    /\ plan_pc = "idle" /\ duration_mins = 0 /\ outline_calls = 0
    /\ outline_failures = 0 /\ ch_failures = <<>>
    /\ outline = NoOutline /\ ch_calls = <<>> /\ ch_result = <<>>
    /\ finish_order = <<>> /\ beats = <<>> /\ validation_errors = <<>>
    /\ fn_call = <<>>
    /\ status = "idle" /\ job = NoJob

RenderIdle ==
    /\ tasks = <<>> /\ max_workers = 0 /\ sem = 0 /\ rstate = <<>>
    /\ routcome = <<>> /\ render_pc = "idle" /\ rendered = <<>> /\ errors = <<>>

AudioIdle ==
    /\ abeats = <<>> /\ astate = <<>> /\ aresult = <<>> /\ audio_pc = "idle"
    /\ audio_clips = <<>>
    /\ manifest = <<>> /\ blobs = <<>> /\ wav_files = {}
    /\ manifest_file = <<>> /\ acalls = <<>>
    /\ cache_log = <<>> /\ stored = <<>> /\ job_caches = <<>>

ComposeIdle ==
    /\ cbeats = <<>> /\ merge_tasks = <<>> /\ merge_result = <<>>
    /\ merge_finish = <<>> /\ compose_pc = "idle" /\ final_segments = <<>>
    /\ min_beat_duration = 0 /\ durations = <<>> /\ audio_paths = {}
    /\ scene_duration = <<>> /\ merge_mode = <<>>
    /\ ffmpeg_calls = <<>> /\ comp_call = <<>>

(***************************************************************************)
(* SpecPlan: main.py steps 1-2 driving generator/planner.py                *)
(***************************************************************************)
Durations == {3, 5}

\* the job record as generate has just created it, or as _run_pipeline has
\* just set it to planning
PlanStart(s) ==
    /\ plan_pc = "outline"
    /\ duration_mins \in Durations
    /\ outline_calls = 0
    /\ outline_failures = 0
    /\ outline = NoOutline
    /\ ch_calls = <<>>
    /\ ch_failures = <<>>
    /\ ch_result = <<>>
    /\ finish_order = <<>>
    /\ beats = <<>>
    /\ validation_errors = <<>>
    /\ fn_call = <<>>
    /\ status = s
    /\ job = NoJob
    /\ RenderIdle /\ AudioIdle /\ ComposeIdle

InitPlan == PlanStart("planning")

\* generate_outline: one iteration of the retry loop (one completion call).
\* The ValueError raised after the last failed attempt leaves
\* generate_scene_plan and is caught by _run_pipeline's except clause.
OutlineAttempt ==
    /\ plan_pc = "outline"
    /\ status = "planning"
    /\ outline_calls < MAX_OUTLINE_RETRIES
    /\ \E r \in OutlineResponses :
         /\ outline_calls' = outline_calls + 1
         /\ IF OutlineAttemptOk(r, duration_mins)
            THEN /\ outline' = [title |-> r.title, chapters |-> r.chapters]
                 /\ plan_pc' = "chapters"
                 /\ ch_calls' = [i \in DOMAIN r.chapters |-> 0]
                 /\ ch_failures' = [i \in DOMAIN r.chapters |-> 0]
                 /\ ch_result' = [i \in DOMAIN r.chapters |-> Pending]
                 /\ UNCHANGED <<status, job, outline_failures>>
            ELSE /\ UNCHANGED <<outline, ch_calls, ch_failures, ch_result>>
                 /\ outline_failures' = outline_failures + 1
                 /\ IF outline_calls + 1 = MAX_OUTLINE_RETRIES
                    THEN /\ plan_pc' = "failed" /\ status' = "failed"
                         /\ job' = [job EXCEPT !.error =
                                      <<"Outline failed after 3 attempts: " \o r.kind>>]
                    ELSE UNCHANGED <<plan_pc, status, job>>
    /\ UNCHANGED <<duration_mins, finish_order, beats, validation_errors, fn_call>>
    /\ UNCHANGED <<renderVars, audioVars, composeVars>>

\* _generate_chapter_beats for chapter i: one iteration of the retry loop
ChapterAttempt(i) ==
    /\ plan_pc = "chapters"
    /\ ~ch_result[i].returned
    /\ ch_calls[i] < MAX_CHAPTER_RETRIES
    /\ \E r \in ChapterResponses(outline.chapters[i].id) :
         /\ ch_calls' = [ch_calls EXCEPT ![i] = @ + 1]
         /\ IF ChapterAttemptOk(r)
            THEN /\ ch_result' = [ch_result EXCEPT
                                    ![i] = Returned(ParseChapter(r.value).items)]
                 /\ finish_order' = Append(finish_order, i)
                 /\ UNCHANGED ch_failures
            ELSE /\ ch_failures' = [ch_failures EXCEPT ![i] = @ + 1]
                 /\ IF ch_calls[i] = MAX_CHAPTER_RETRIES - 1
                    THEN /\ ch_result' = [ch_result EXCEPT
                                            ![i] = Returned(FallbackBeats(outline.chapters[i]))]
                         /\ finish_order' = Append(finish_order, i)
                    ELSE UNCHANGED <<ch_result, finish_order>>
    /\ UNCHANGED <<plan_pc, duration_mins, outline_calls, outline_failures, outline,
                   beats, validation_errors, fn_call, status, job>>
    /\ UNCHANGED <<renderVars, audioVars, composeVars>>

\* generate_scene_plan: the gather over the chapters has returned;
\* assemble the flat beat list and return the plan
AssemblePlan ==
    /\ plan_pc = "chapters"
    /\ AllChaptersReturned
    /\ beats' = AssembleBeats(outline, chapter_beats_lists)
    /\ plan_pc' = "returned"
    /\ UNCHANGED <<duration_mins, outline_calls, outline_failures, outline, ch_calls,
                   ch_failures, ch_result, finish_order, validation_errors, fn_call,
                   status, job>>
    /\ UNCHANGED <<renderVars, audioVars, composeVars>>

\* main.py step 2: validate_beats on the plan; errors are logged as warnings
\* and the job moves on to audio synthesis
ValidatePlan ==
    /\ plan_pc = "returned"
    /\ status = "planning"
    /\ validation_errors' = validate_beats(beats)
    /\ status' = "generating_audio"
    /\ job' = [job EXCEPT !.total_beats = <<Len(beats)>>]
    /\ UNCHANGED <<plan_pc, duration_mins, outline_calls, outline_failures, outline,
                   ch_calls, ch_failures, ch_result, finish_order, beats, fn_call>>
    /\ UNCHANGED <<renderVars, audioVars, composeVars>>

NextPlan ==
    \/ OutlineAttempt
    \/ \E i \in DOMAIN ch_result : ChapterAttempt(i)
    \/ AssemblePlan
    \/ ValidatePlan

SpecPlan == InitPlan /\ [][NextPlan]_vars

(***************************************************************************)
(* SpecFunctions: the pure functions of generator/validator.py and         *)
(* generator/planner.py, each applied once to an argument drawn from a     *)
(* bounded set                                                             *)
(***************************************************************************)
\* Bound of the model
MaxBraceLen == 6     \* longest text handed to check_braces

\* all sequences over the set chars of length at most n
SeqsUpTo(chars, n) == UNION { [1..k -> chars] : k \in 0..n }

BraceTexts == SeqsUpTo({"{", "}", "a"}, MaxBraceLen)

MaxBeatListLen == 4  \* longest list handed to validate_beats

\* beats with a repeated, a missing or a fresh beat_id, valid or with a blank
\* narration
ValidatorBeats ==
    { [beat_id |-> id, narration |-> n, visual |-> [type |-> "pause"]] :
        id \in {"a", "b", ""}, n \in {"n", " "} }

ValidatorBeatLists == SeqsUpTo(ValidatorBeats, MaxBeatListLen)

\* responses handed to _strip_fences: up to six pieces, each a fence, a
\* backtick, whitespace, the tag json or another word
FencePieces == { FENCE, <<"#">>, <<" ">>, <<"j", "s", "o", "n">>, <<"x">> }

FencePieceCounts == 0..6

RECURSIVE Flatten(_)
Flatten(pieces) ==
    IF pieces = <<>> THEN <<>> ELSE Head(pieces) \o Flatten(Tail(pieces))

FenceTexts ==
    { Flatten(ps) : ps \in UNION { [1..k -> FencePieces] : k \in FencePieceCounts } }

\* values a chapter response may parse to: an array, a scalar, or an object
\* of up to two members whose keys are wrapper keys or another key and whose
\* values are a beat list, an empty list or something that is no list
ChapterKeys == {"beats", "chapter_beats", "items", "data", "result"}

ChapterMembers ==
    { JArray(<<Beat("a")>>), JArray(<<Beat("b")>>), JArray(<<>>), JScalar,
      JArray(<<Beat("x"), Beat("x")>>) }

MaxMembers == 2      \* most members of a parsed object

ChapterObjects ==
    { JObject(ps) : ps \in
        { qs \in SeqsUpTo(ChapterKeys \X ChapterMembers, MaxMembers) :
            \A i, j \in 1..Len(qs) : i # j => qs[i][1] # qs[j][1] } }

ChapterValues == ChapterMembers \cup ChapterObjects

\* what one attempt of _generate_chapter_beats makes of a parsed value: the
\* beats it returns, or the ValueError that makes the attempt a failed one
chapter_attempt(value) ==
    IF ChapterAttemptOk([kind |-> "json", value |-> value])
    THEN [ok |-> TRUE, beats |-> ParseChapter(value).items]
    ELSE [ok |-> FALSE, beats |-> <<>>]

\* a call that has not returned yet
FnCall(fn, arg) == [fn |-> fn, arg |-> arg, out |-> <<>>, again |-> <<>>]

FunctionCalls ==
    { FnCall("check_braces", t) : t \in BraceTexts }
      \cup { FnCall("validate_beats", bs) : bs \in ValidatorBeatLists }
      \cup { FnCall("strip_fences", t) : t \in FenceTexts }
      \cup { FnCall("chapter_attempt", v) : v \in ChapterValues }

InitFunctions ==
    /\ \E c \in FunctionCalls : fn_call = <<c>>
    /\ plan_pc = "idle" /\ duration_mins = 0 /\ outline_calls = 0
    /\ outline_failures = 0 /\ ch_failures = <<>>
    /\ outline = NoOutline /\ ch_calls = <<>> /\ ch_result = <<>>
    /\ finish_order = <<>> /\ beats = <<>> /\ validation_errors = <<>>
    /\ status = "idle" /\ job = NoJob
    /\ RenderIdle /\ AudioIdle /\ ComposeIdle

\* the call of fn drawn by InitFunctions has not returned
Calling(fn) == fn_call[1].fn = fn /\ fn_call[1].out = <<>>

FunctionReturns(out) ==
    /\ fn_call' = << [fn_call[1] EXCEPT !.out = <<out>>] >>
    /\ UNCHANGED <<plan_pc, duration_mins, outline_calls, outline_failures, outline,
                   ch_calls, ch_failures, ch_result, finish_order, beats,
                   validation_errors, status, job>>
    /\ UNCHANGED <<renderVars, audioVars, composeVars>>

CheckBracesCall ==
    /\ Calling("check_braces")
    /\ FunctionReturns(check_braces(fn_call[1].arg))

ValidateBeatsCall ==
    /\ Calling("validate_beats")
    /\ FunctionReturns(validate_beats(fn_call[1].arg))

StripFencesCall ==
    /\ Calling("strip_fences")
    /\ FunctionReturns(strip_fences(fn_call[1].arg))

\* _strip_fences applied to what _strip_fences returned
StripFencesAgain ==
    /\ fn_call[1].fn = "strip_fences"
    /\ fn_call[1].out # <<>> /\ fn_call[1].again = <<>>
    /\ fn_call' = << [fn_call[1] EXCEPT !.again = <<strip_fences(fn_call[1].out[1])>>] >>
    /\ UNCHANGED <<plan_pc, duration_mins, outline_calls, outline_failures, outline,
                   ch_calls, ch_failures, ch_result, finish_order, beats,
                   validation_errors, status, job>>
    /\ UNCHANGED <<renderVars, audioVars, composeVars>>

\* _generate_chapter_beats from json.loads to the return or the raise
ChapterAttemptCall ==
    /\ Calling("chapter_attempt")
    /\ FunctionReturns(chapter_attempt(fn_call[1].arg))

NextFunctions ==
    \/ CheckBracesCall
    \/ ValidateBeatsCall
    \/ StripFencesCall
    \/ StripFencesAgain
    \/ ChapterAttemptCall

SpecFunctions == InitFunctions /\ [][NextFunctions]_vars

(***************************************************************************)
(* renderer/render_engine.py                                               *)
(***************************************************************************)
\* Bounds of the model
MaxTasks == 3     \* longest task list (and longest plan) considered

\* values of the max_workers argument considered
WorkerCounts == {1, 2}

\* The scene entries tasks are drawn from: (seg_id, class_name); class
\* names are character sequences.  The first two follow the naming of
\* beats 1 and 10 of one chapter: one class name is a prefix of the other.
SceneEntries ==
    { [seg_id |-> "b1",  class_name |-> <<"S", "1">>],
      [seg_id |-> "b10", class_name |-> <<"S", "1", "0">>],
      [seg_id |-> "b2",  class_name |-> <<"S", "2">>],
      [seg_id |-> "b3",  class_name |-> <<"S", "3">>] }

\* Task lists: no entry twice
TaskLists ==
    UNION { { t \in [1..n -> SceneEntries] :
                \A i, j \in 1..n : i # j => t[i] # t[j] } : n \in 0..MaxTasks }

\* Python's  needle in hay  on strings
Contains(hay, needle) ==
    \E k \in 0..(Len(hay) - Len(needle)) :
        SubSeq(hay, k + 1, k + Len(needle)) = needle

\* msg[:n]
Truncate(msg, n) == SubSeq(msg, 1, Min2(Len(msg), n))

\* What render_segment_subprocess does for a task.  The fixed words of a
\* message are written as punctuation no class name contains.
\*   "exit"    manim exits non-zero: RuntimeError("... for '<class_name>': ...")
\*   "timeout" subprocess.TimeoutExpired: "Command '[..., <class_name>, ...]' timed out"
\*   "nofile"  FileNotFoundError("... no .mp4 found in <media_dir>")
\*   "ok"      the rendered file's path is returned
RenderKinds == {"ok", "exit", "timeout", "nofile"}

render_segment_subprocess(task, kind) ==
    CASE kind = "ok"      -> [ok |-> TRUE,  path |-> task.seg_id, msg |-> <<>>]
      [] kind = "exit"    -> [ok |-> FALSE, path |-> "",
                              msg |-> <<"'">> \o task.class_name \o <<"'", ":">>]
      [] kind = "timeout" -> [ok |-> FALSE, path |-> "",
                              msg |-> <<"[">> \o task.class_name \o <<"]">>]
      [] kind = "nofile"  -> [ok |-> FALSE, path |-> "", msg |-> <<"/", "m">>]

NoOutcome == [ok |-> FALSE, path |-> "", msg |-> <<>>]

\* dict[key] = value
DictPut(d, key, value) ==
    [k \in (DOMAIN d) \cup {key} |-> IF k = key THEN value ELSE d[k]]

\* the inner  for seg_id, _, class_name, _ in tasks  with its else branch:
\* the key under which an exception's message is stored
RECURSIVE ErrorKeyFrom(_, _, _)
ErrorKeyFrom(ts, msg, errs) ==
    IF ts = <<>> THEN "unknown_" \o ToString(Cardinality(DOMAIN errs))
    ELSE IF Contains(msg, Head(ts).class_name) THEN Head(ts).seg_id
    ELSE ErrorKeyFrom(Tail(ts), msg, errs)

\* the  for item in results  loop: results are in task order
RECURSIVE CollectFrom(_, _, _, _)
CollectFrom(ts, results, rend, errs) ==
    IF results = <<>> THEN [rendered |-> rend, errors |-> errs]
    ELSE LET item == Head(results)
             tk   == ts[Len(ts) - Len(results) + 1]
         IN  IF ~item.ok
             THEN CollectFrom(ts, Tail(results), rend,
                              DictPut(errs, ErrorKeyFrom(ts, item.msg, errs),
                                      Truncate(item.msg, 500)))
             ELSE CollectFrom(ts, Tail(results),
                              DictPut(rend, tk.seg_id, item.path), errs)

\* a collection in which one failed render empties the success map
Collect_FailureEmptiesRendered(ts, results) ==
    LET maps == CollectFrom(ts, results, <<>>, <<>>) IN
    IF maps.errors = <<>> THEN maps ELSE [rendered |-> <<>>, errors |-> maps.errors]

Collect(ts, results) == CollectFrom(ts, results, <<>>, <<>>)

\* async with semaphore: a slot is free
SemaphoreFree_Always == TRUE

SemaphoreFree == sem > 0

\* leaving the  async with  block, normally or by an exception
SemAfterRelease_LeakOnError(s, result) == IF result.ok THEN s + 1 ELSE s

SemAfterRelease(s, result) == s + 1

InitRender ==
    /\ tasks \in TaskLists
    /\ max_workers \in WorkerCounts
    /\ sem = max_workers
    /\ rstate = [i \in DOMAIN tasks |-> "waiting"]
    /\ routcome = [i \in DOMAIN tasks |-> NoOutcome]
    /\ render_pc = "gather"
    /\ rendered = <<>>
    /\ errors = <<>>
    /\ PlanIdle /\ AudioIdle /\ ComposeIdle

\* _render_one enters  async with semaphore  and starts the subprocess
\* through asyncio.to_thread
RenderStart(i) ==
    /\ render_pc = "gather"
    /\ rstate[i] = "waiting"
    /\ SemaphoreFree
    /\ sem' = sem - 1
    /\ rstate' = [rstate EXCEPT ![i] = "running"]
    /\ UNCHANGED <<tasks, max_workers, routcome, render_pc, rendered, errors>>
    /\ UNCHANGED <<planVars, audioVars, composeVars>>

\* the subprocess of task i ends (or is killed at its 300 s timeout);
\* _render_one leaves the  async with  block with a result or an exception
RenderFinish(i) ==
    /\ render_pc = "gather"
    /\ rstate[i] = "running"
    /\ \E kind \in RenderKinds :
         LET result == render_segment_subprocess(tasks[i], kind) IN
         /\ routcome' = [routcome EXCEPT ![i] = result]
         /\ sem' = SemAfterRelease(sem, result)
    /\ rstate' = [rstate EXCEPT ![i] = "done"]
    /\ UNCHANGED <<tasks, max_workers, render_pc, rendered, errors>>
    /\ UNCHANGED <<planVars, audioVars, composeVars>>

\* asyncio.gather(return_exceptions=True) returns once every coroutine is
\* done; the two maps are built and returned
RenderReturn ==
    /\ render_pc = "gather"
    /\ \A i \in DOMAIN tasks : rstate[i] = "done"
    /\ rendered' = Collect(tasks, routcome).rendered
    /\ errors' = Collect(tasks, routcome).errors
    /\ render_pc' = "returned"
    /\ UNCHANGED <<tasks, max_workers, sem, rstate, routcome>>
    /\ UNCHANGED <<planVars, audioVars, composeVars>>

NextRender ==
    \/ \E i \in DOMAIN tasks : RenderStart(i)
    \/ \E i \in DOMAIN tasks : RenderFinish(i)
    \/ RenderReturn

SpecRender == InitRender /\ [][NextRender]_vars

\* The event loop runs every ready coroutine, and every subprocess ends or
\* is killed at its timeout
SpecRenderFair == SpecRender /\ WF_vars(NextRender)

(***************************************************************************)
(* tts/sarvam.py and narration/audio_cache.py                              *)
(***************************************************************************)
\* Bound of the model
MaxAudioBeats == 3     \* longest beat list handed to generate_all_audio

\* Narrations of the beats: blank, two that strip to the same text, another
Narrations == { <<" ">>, <<"h">>, <<"h", " ">>, <<"y">> }

AudioBeatIds == <<"a1", "a2", "a3", "a4">>

AudioBeatLists ==
    UNION { { [i \in 1..n |-> [beat_id |-> AudioBeatIds[i], narration |-> f[i]]] :
                f \in [1..n -> Narrations] } : n \in 0..MaxAudioBeats }

AudioClip(bytes, duration) == [audio_bytes |-> bytes, duration |-> duration]

\* a placeholder without a duration
SentinelClip_ZeroDuration == AudioClip("", 0)

\* the clip returned for blank narration
SentinelClip == AudioClip("", 5)

\* seconds of speech the service produces for a text
SpokenSeconds(text) == IF text = <<"y">> THEN 12 ELSE 4

\* What SarvamTTS.generate can do for a text: raise, return the spoken
\* clip, or return a clip without audio
TTSOutcomes(text) ==
    { [raised |-> TRUE,  clip |-> AudioClip("", 0)],
      [raised |-> FALSE, clip |-> AudioClip("pcm", SpokenSeconds(text))],
      [raised |-> FALSE, clip |-> AudioClip("", 0)] }

\* How a call of _trim_silence on a clip can go: the clip has no bytes, the
\* audio was cut, no non-silent range was found, pydub cannot be imported,
\* or pydub raised
TrimOutcomes(clip) ==
    IF clip.audio_bytes = "" THEN {"empty"}
    ELSE {"trimmed", "silent", "unavailable", "failed"}

\* a clip lost when trimming does not go through
trim_silence_DropOnFailure(clip, how) ==
    IF how = "trimmed" THEN AudioClip("wav", clip.duration - 1)
    ELSE IF how \in {"unavailable", "failed"} THEN AudioClip("", 0)
    ELSE clip

\* _trim_silence: a re-exported clip that is shorter, or the clip itself
trim_silence(clip, how) ==
    IF how = "trimmed" THEN AudioClip("wav", clip.duration - 1) ELSE clip

\* the voice and language arguments of generate_all_audio
job_voice == <<"s">>

job_language == <<"e", "n">>

\* a key that leaves the voice out
compute_key_IgnoreVoice(text, voice, language) == text \o <<"|">> \o language

\* AudioCache._compute_key: the string f"{text}|{voice}|{language}"; its
\* SHA-256 digest is taken to be collision-free, so the string is the key
compute_key(text, voice, language) ==
    text \o <<"|">> \o voice \o <<"|">> \o language

\* a put keyed by the narration as written, not by the stripped text
PutKey_Unstripped(narration) == compute_key(narration, job_voice, job_language)

\* generate_audio_async: the key of cache.get(text=text, voice=voice,
\* language=language) and of cache.put(text=text, voice=voice, ...)
GetKey(narration) == compute_key(Strip(narration), job_voice, job_language)

PutKey(narration) == compute_key(Strip(narration), job_voice, job_language)

DictDel(d, key) == [k \in (DOMAIN d) \ {key} |-> d[k]]

\* The cache directories a job can start with: empty, the text "h" cached
\* for the job's voice and language, the same entry with its blob deleted
InitialCaches ==
    LET k == compute_key(<<"h">>, job_voice, job_language) IN
    { [manifest |-> <<>>, blobs |-> <<>>],
      [manifest |-> [x \in {k} |-> [duration |-> 4]],
       blobs |-> [x \in {k} |-> "pcm"]],
      [manifest |-> [x \in {k} |-> [duration |-> 4]], blobs |-> <<>>] }

\* AudioCache.get
CacheHit(m, b, key) == key \in DOMAIN m /\ key \in DOMAIN b

CachedClip(m, b, key) == AudioClip(b[key], m[key].duration)

\* a get that leaves the manifest as it found it
ManifestAfterGet_KeepStale(m, b, key) == m

\* the manifest after AudioCache.get: a stale entry is dropped
ManifestAfterGet(m, b, key) ==
    IF key \in DOMAIN m /\ key \notin DOMAIN b THEN DictDel(m, key) ELSE m

\* one call made by generate_audio_async: cache.get, tts.generate,
\* _trim_silence or cache.put, with the key or text it was given, the clip
\* it returned or was given, and for _trim_silence how it went
AudioCall(name, key, clip, how) ==
    [call |-> name, key |-> key, clip |-> clip, how |-> how]

\* _generate_one's return value
NoResult == [bid |-> "", clip |-> <<>>]

AudioResult(bid, clip) == [bid |-> bid, clip |-> <<clip>>]

AudioFailure(bid) == [bid |-> bid, clip |-> <<>>]

\* if clip.audio_bytes: (audio_dir / f"{bid}.wav").write_bytes(...)
WavFilesAfter(files, bid, clip) ==
    IF clip.audio_bytes # "" THEN files \cup {bid} ELSE files

\* {bid: clip for bid, clip in results if clip is not None}
RECURSIVE ResultMapFrom(_, _)
ResultMapFrom(results, acc) ==
    IF results = <<>> THEN acc
    ELSE IF Head(results).clip = <<>> THEN ResultMapFrom(Tail(results), acc)
    ELSE ResultMapFrom(Tail(results),
                       DictPut(acc, Head(results).bid, Head(results).clip[1]))

ResultMap_AbortOnFailure(results) ==
    IF \E i \in DOMAIN results : results[i].clip = <<>> THEN <<>>
    ELSE ResultMapFrom(results, <<>>)

ResultMap(results) == ResultMapFrom(results, <<>>)

InitAudio ==
    /\ abeats \in AudioBeatLists
    /\ astate = [i \in DOMAIN abeats |-> "pending"]
    /\ aresult = [i \in DOMAIN abeats |-> NoResult]
    /\ audio_pc = "gather"
    /\ audio_clips = <<>>
    /\ \E c \in InitialCaches : manifest = c.manifest /\ blobs = c.blobs
    /\ manifest_file = manifest
    /\ wav_files = {}
    /\ acalls = [i \in DOMAIN abeats |-> <<>>]
    /\ cache_log = <<>> /\ stored = <<>> /\ job_caches = <<>>
    /\ PlanIdle /\ RenderIdle /\ ComposeIdle

\* _generate_one(beat) runs up to its first suspension: blank narration and
\* cache hits return at once, a miss hands the text to the executor.  The
\* event loop starts the coroutines of gather in the order of the beat list.
AudioBegin(i) ==
    /\ audio_pc = "gather"
    /\ astate[i] = "pending"
    /\ \A j \in 1..(i - 1) : astate[j] # "pending"
    /\ LET bid  == abeats[i].beat_id
           text == Strip(abeats[i].narration)
           key  == GetKey(abeats[i].narration)
       IN  IF text = <<>>
           THEN /\ aresult' = [aresult EXCEPT ![i] = AudioResult(bid, SentinelClip)]
                /\ astate' = [astate EXCEPT ![i] = "ok"]
                /\ wav_files' = WavFilesAfter(wav_files, bid, SentinelClip)
                /\ UNCHANGED <<manifest, manifest_file, acalls>>
           ELSE IF CacheHit(manifest, blobs, key)
           THEN LET clip == CachedClip(manifest, blobs, key) IN
                /\ aresult' = [aresult EXCEPT ![i] = AudioResult(bid, clip)]
                /\ astate' = [astate EXCEPT ![i] = "ok"]
                /\ wav_files' = WavFilesAfter(wav_files, bid, clip)
                /\ acalls' = [acalls EXCEPT ![i] =
                                 Append(@, AudioCall("get", key, <<clip>>, ""))]
                /\ UNCHANGED <<manifest, manifest_file>>
           ELSE /\ manifest' = ManifestAfterGet(manifest, blobs, key)
                /\ manifest_file' = IF manifest' # manifest THEN manifest'
                                                            ELSE manifest_file
                /\ astate' = [astate EXCEPT ![i] = "synth"]
                /\ acalls' = [acalls EXCEPT ![i] =
                                 Append(@, AudioCall("get", key, <<>>, ""))]
                /\ UNCHANGED <<aresult, wav_files>>
    /\ UNCHANGED <<abeats, audio_pc, audio_clips, blobs, cacheVars>>
    /\ UNCHANGED <<planVars, renderVars, composeVars>>

\* the executor call of beat i ends: an exception is caught by _generate_one,
\* a clip is trimmed, stored in the cache and written to audio_dir.  The
\* event loop resumes a coroutine after an executor call only once every
\* coroutine gather started has run to its first suspension.
AudioSynthEnd(i) ==
    /\ audio_pc = "gather"
    /\ astate[i] = "synth"
    /\ \A j \in DOMAIN abeats : astate[j] # "pending"
    /\ \E out \in TTSOutcomes(Strip(abeats[i].narration)) :
         LET bid  == abeats[i].beat_id
             text == Strip(abeats[i].narration)
             key  == PutKey(abeats[i].narration)
         IN  IF out.raised
             THEN /\ aresult' = [aresult EXCEPT ![i] = AudioFailure(bid)]
                  /\ astate' = [astate EXCEPT ![i] = "failed"]
                  /\ acalls' = [acalls EXCEPT ![i] =
                                   Append(@, AudioCall("generate", text, <<>>, ""))]
                  /\ UNCHANGED <<manifest, manifest_file, blobs, wav_files>>
             ELSE \E how \in TrimOutcomes(out.clip) :
                  LET clip == trim_silence(out.clip, how) IN
                  /\ blobs' = DictPut(blobs, key, clip.audio_bytes)
                  /\ manifest' = DictPut(manifest, key, [duration |-> clip.duration])
                  /\ manifest_file' = manifest'
                  /\ wav_files' = WavFilesAfter(wav_files, bid, clip)
                  /\ aresult' = [aresult EXCEPT ![i] = AudioResult(bid, clip)]
                  /\ astate' = [astate EXCEPT ![i] = "ok"]
                  /\ acalls' = [acalls EXCEPT ![i] = @ \o
                        << AudioCall("generate", text, <<out.clip>>, ""),
                           AudioCall("trim", <<>>, <<clip>>, how),
                           AudioCall("put", key, <<clip>>, "") >>]
    /\ UNCHANGED <<abeats, audio_pc, audio_clips, cacheVars>>
    /\ UNCHANGED <<planVars, renderVars, composeVars>>

\* asyncio.gather returns once every _generate_one has returned
AudioReturn ==
    /\ audio_pc = "gather"
    /\ \A i \in DOMAIN abeats : astate[i] \in {"ok", "failed"}
    /\ audio_clips' = ResultMap(aresult)
    /\ audio_pc' = "returned"
    /\ UNCHANGED <<abeats, astate, aresult, manifest, blobs, wav_files,
                   manifest_file, acalls, cacheVars>>
    /\ UNCHANGED <<planVars, renderVars, composeVars>>

NextAudio ==
    \/ \E i \in DOMAIN abeats : AudioBegin(i)
    \/ \E i \in DOMAIN abeats : AudioSynthEnd(i)
    \/ AudioReturn

SpecAudio == InitAudio /\ [][NextAudio]_vars

(***************************************************************************)
(* SpecCache: one AudioCache object driven by an arbitrary caller, with    *)
(* blob files deleted from the cache directory behind its back.  has() and *)
(* size only read the manifest and are left out.                           *)
(***************************************************************************)
\* Bound of the model
MaxCacheOps == 3       \* calls and deletions made on the cache

\* (text, voice, language): two texts, one holding the separator of the key
\* string, two voice ids, two language codes
CacheTriples ==
    { <<"h">>, <<"h", "|", "s">> } \X { <<"s">>, <<"m">> }
        \X { <<"e", "n">>, <<"h", "i">> }

CacheClips == { AudioClip("pcm", 4), AudioClip("wav", 3) }

KeyOf(t) == compute_key(t[1], t[2], t[3])

\* the triples that no longer have their blob once the file of key is gone
StoredWithout(st, key) == [t \in { u \in DOMAIN st : KeyOf(u) # key } |-> st[t]]

\* one entry of cache_log: the method, its (text, voice, language), the clip
\* passed in, the clip returned, the clip last put under the triple, and
\* whether the manifest entry found pointed to a missing blob
CacheCall(op, t, clip, result, held, stale) ==
    [op |-> op, triple |-> t, clip |-> clip, result |-> result,
     held |-> held, stale |-> stale]

InitCache ==
    /\ manifest = <<>> /\ blobs = <<>> /\ manifest_file = <<>>
    /\ cache_log = <<>> /\ stored = <<>> /\ job_caches = <<>>
    /\ abeats = <<>> /\ astate = <<>> /\ aresult = <<>> /\ audio_pc = "idle"
    /\ audio_clips = <<>> /\ wav_files = {} /\ acalls = <<>>
    /\ PlanIdle /\ RenderIdle /\ ComposeIdle

\* AudioCache.put: write the blob, set the manifest entry, save the manifest
CachePut(t, clip) ==
    /\ Len(cache_log) < MaxCacheOps
    /\ blobs' = DictPut(blobs, KeyOf(t), clip.audio_bytes)
    /\ manifest' = DictPut(manifest, KeyOf(t), [duration |-> clip.duration])
    /\ manifest_file' = manifest'
    /\ stored' = DictPut(stored, t, clip)
    /\ cache_log' = Append(cache_log,
                           CacheCall("put", t, <<clip>>, <<>>, <<>>, FALSE))
    /\ UNCHANGED <<abeats, astate, aresult, audio_pc, audio_clips, wav_files,
                   acalls, job_caches>>
    /\ UNCHANGED <<planVars, renderVars, composeVars>>

\* AudioCache.get: None without a manifest entry; an entry whose blob is
\* missing is deleted and the manifest saved; else the clip read back
CacheGet(t) ==
    /\ Len(cache_log) < MaxCacheOps
    /\ LET key   == KeyOf(t)
           stale == key \in DOMAIN manifest /\ key \notin DOMAIN blobs
           found == IF CacheHit(manifest, blobs, key)
                    THEN <<CachedClip(manifest, blobs, key)>> ELSE <<>>
           held  == IF t \in DOMAIN stored THEN <<stored[t]>> ELSE <<>>
       IN  /\ manifest' = ManifestAfterGet(manifest, blobs, key)
           /\ manifest_file' = IF stale THEN manifest' ELSE manifest_file
           /\ cache_log' = Append(cache_log,
                                  CacheCall("get", t, <<>>, found, held, stale))
    /\ UNCHANGED <<blobs, stored>>
    /\ UNCHANGED <<abeats, astate, aresult, audio_pc, audio_clips, wav_files,
                   acalls, job_caches>>
    /\ UNCHANGED <<planVars, renderVars, composeVars>>

\* AudioCache.invalidate: unlink the blob, delete the entry, save
CacheInvalidate(t) ==
    /\ Len(cache_log) < MaxCacheOps
    /\ LET key == KeyOf(t) IN
       /\ IF key \in DOMAIN manifest
          THEN /\ blobs' = DictDel(blobs, key)
               /\ manifest' = DictDel(manifest, key)
               /\ manifest_file' = manifest'
               /\ stored' = StoredWithout(stored, key)
          ELSE UNCHANGED <<blobs, manifest, manifest_file, stored>>
       /\ cache_log' = Append(cache_log,
                              CacheCall("invalidate", t, <<>>, <<>>, <<>>, FALSE))
    /\ UNCHANGED <<abeats, astate, aresult, audio_pc, audio_clips, wav_files,
                   acalls, job_caches>>
    /\ UNCHANGED <<planVars, renderVars, composeVars>>

\* AudioCache.clear: unlink every blob the manifest names, empty it, save
CacheClear ==
    /\ Len(cache_log) < MaxCacheOps
    /\ blobs' = [k \in (DOMAIN blobs) \ (DOMAIN manifest) |-> blobs[k]]
    /\ manifest' = <<>>
    /\ manifest_file' = <<>>
    /\ stored' = <<>>
    /\ cache_log' = Append(cache_log,
                           CacheCall("clear", <<>>, <<>>, <<>>, <<>>, FALSE))
    /\ UNCHANGED <<abeats, astate, aresult, audio_pc, audio_clips, wav_files,
                   acalls, job_caches>>
    /\ UNCHANGED <<planVars, renderVars, composeVars>>

\* somebody else removes a blob file from the cache directory
BlobDeleted(key) ==
    /\ Len(cache_log) < MaxCacheOps
    /\ key \in DOMAIN blobs
    /\ blobs' = DictDel(blobs, key)
    /\ stored' = StoredWithout(stored, key)
    /\ cache_log' = Append(cache_log,
                           CacheCall("unlink", <<>>, <<>>, <<>>, <<>>, FALSE))
    /\ UNCHANGED <<manifest, manifest_file>>
    /\ UNCHANGED <<abeats, astate, aresult, audio_pc, audio_clips, wav_files,
                   acalls, job_caches>>
    /\ UNCHANGED <<planVars, renderVars, composeVars>>

NextCache ==
    \/ \E t \in CacheTriples, clip \in CacheClips : CachePut(t, clip)
    \/ \E t \in CacheTriples : CacheGet(t)
    \/ \E t \in CacheTriples : CacheInvalidate(t)
    \/ CacheClear
    \/ \E key \in DOMAIN blobs : BlobDeleted(key)

SpecCache == InitCache /\ [][NextCache]_vars

(***************************************************************************)
(* SpecSharedCache: two jobs running in one process, each with the         *)
(* AudioCache object _run_pipeline constructs for it over the same         *)
(* settings.audio_cache_dir.  put and get have no await, so each runs to   *)
(* its end before the other job's coroutine is resumed.                    *)
(***************************************************************************)
\* Bound of the model
MaxJobOps == 2         \* put and get calls one job makes on its cache

SharedJobs == {1, 2}

\* the narrations the two jobs synthesize, with the voice and language of
\* the request
SharedTriples == { <<t, job_voice, job_language>> : t \in { <<"h">>, <<"y">> } }

\* one job's cache: "new" before AudioCache(...) is constructed, "open"
\* while generate_all_audio uses it, "done" after; its in-memory manifest;
\* the calls made on it; what its last get returned
JobCache(pc, m, ops, got) == [pc |-> pc, manifest |-> m, ops |-> ops, got |-> got]

InitSharedCache ==
    /\ job_caches = [j \in SharedJobs |-> JobCache("new", <<>>, 0, <<>>)]
    /\ manifest = <<>> /\ blobs = <<>> /\ manifest_file = <<>>
    /\ cache_log = <<>> /\ stored = <<>>
    /\ abeats = <<>> /\ astate = <<>> /\ aresult = <<>> /\ audio_pc = "idle"
    /\ audio_clips = <<>> /\ wav_files = {} /\ acalls = <<>>
    /\ PlanIdle /\ RenderIdle /\ ComposeIdle

\* what the actions of the two jobs leave alone
SharedCacheFrame ==
    /\ UNCHANGED <<abeats, astate, aresult, audio_pc, audio_clips, wav_files,
                   acalls, manifest, cache_log>>
    /\ UNCHANGED <<planVars, renderVars, composeVars>>

\* cache = AudioCache(settings.audio_cache_dir): _load_manifest reads the
\* manifest file as it is now
JobCacheOpen(j) ==
    /\ job_caches[j].pc = "new"
    /\ job_caches' = [job_caches EXCEPT ![j] = JobCache("open", manifest_file, 0, <<>>)]
    /\ UNCHANGED <<blobs, manifest_file, stored>>
    /\ SharedCacheFrame

\* cache.put of job j: the blob is written, the entry set in the job's own
\* manifest, and that manifest written over the manifest file
JobCachePut(j, t, clip) ==
    /\ job_caches[j].pc = "open"
    /\ job_caches[j].ops < MaxJobOps
    /\ LET m == DictPut(job_caches[j].manifest, KeyOf(t), [duration |-> clip.duration]) IN
       /\ blobs' = DictPut(blobs, KeyOf(t), clip.audio_bytes)
       /\ manifest_file' = m
       /\ job_caches' = [job_caches EXCEPT
                           ![j] = JobCache("open", m, job_caches[j].ops + 1, @.got)]
    /\ stored' = DictPut(stored, t, clip)
    /\ SharedCacheFrame

\* cache.get of job j: looked up in the job's own manifest; a stale entry
\* is dropped and the job's manifest saved
JobCacheGet(j, t) ==
    /\ job_caches[j].pc = "open"
    /\ job_caches[j].ops < MaxJobOps
    /\ LET key   == KeyOf(t)
           mine  == job_caches[j].manifest
           stale == key \in DOMAIN mine /\ key \notin DOMAIN blobs
           found == IF CacheHit(mine, blobs, key)
                    THEN <<CachedClip(mine, blobs, key)>> ELSE <<>>
       IN  /\ job_caches' = [job_caches EXCEPT
                               ![j] = JobCache("open", ManifestAfterGet(mine, blobs, key),
                                               job_caches[j].ops + 1, found)]
           /\ manifest_file' = IF stale THEN ManifestAfterGet(mine, blobs, key)
                                         ELSE manifest_file
    /\ UNCHANGED <<blobs, stored>>
    /\ SharedCacheFrame

\* generate_all_audio of job j has returned; the job does not touch the
\* cache again
JobCacheDone(j) ==
    /\ job_caches[j].pc = "open"
    /\ job_caches' = [job_caches EXCEPT ![j].pc = "done"]
    /\ UNCHANGED <<blobs, manifest_file, stored>>
    /\ SharedCacheFrame

NextSharedCache ==
    \/ \E j \in SharedJobs : JobCacheOpen(j)
    \/ \E j \in SharedJobs, t \in SharedTriples, clip \in CacheClips : JobCachePut(j, t, clip)
    \/ \E j \in SharedJobs, t \in SharedTriples : JobCacheGet(j, t)
    \/ \E j \in SharedJobs : JobCacheDone(j)

SpecSharedCache == InitSharedCache /\ [][NextSharedCache]_vars

(***************************************************************************)
(* renderer/composer.py and composer/ffmpeg_merge.py.  Durations are in    *)
(* half seconds here, so that the 0.5 s tolerance is one unit.             *)
(***************************************************************************)
\* what one composer call did: the way the output was produced, the
\* options of the ffmpeg command that differ between the branches
\* (tpad stop_duration, -r, -t, -shortest), the number of ffmpeg
\* invocations, and the exception raised if any
ComposerResult(via, stop_duration, rate, t, shortest, runs, raised, message) ==
    [via |-> via, stop_duration |-> stop_duration, rate |-> rate, t |-> t,
     shortest |-> shortest, runs |-> runs, raised |-> raised, message |-> message]

\* subprocess.run(cmd) once; a non-zero return code raises with stderr
RunFfmpeg_RetryOnce(via, stop_duration, rate, t, shortest, exit, what) ==
    ComposerResult(via, stop_duration, rate, t, shortest,
                   IF exit # 0 THEN 2 ELSE 1, exit # 0,
                   IF exit # 0 THEN what \o " failed: stderr" ELSE "")

RunFfmpeg(via, stop_duration, rate, t, shortest, exit, what) ==
    ComposerResult(via, stop_duration, rate, t, shortest, 1, exit # 0,
                   IF exit # 0 THEN what \o " failed: stderr" ELSE "")

\* a merge that always trims to the audio
VideoComposer_merge_segment_TrimOnly(video_dur, audio_dur, exit) ==
    RunFfmpeg("trim", 0, 30, audio_dur, FALSE, exit, "FFmpeg merge")

\* VideoComposer.merge_segment with the two durations _get_duration gave
VideoComposer_merge_segment(video_dur, audio_dur, exit) ==
    IF audio_dur > video_dur + 1
    THEN RunFfmpeg("pad", audio_dur - video_dur + 1, 0, 0, TRUE, exit, "FFmpeg merge")
    ELSE RunFfmpeg("trim", 0, 30, audio_dur, FALSE, exit, "FFmpeg merge")

\* a merge that hands every beat to ffmpeg
merge_segment_AlwaysEncode(audio, video_dur, audio_dur, exit) ==
    VideoComposer_merge_segment(video_dur, audio_dur, exit)

\* renderer/composer.py merge_segment; audio is "none" (audio_path is None),
\* "missing" (the path does not exist) or "file"
merge_segment(audio, video_dur, audio_dur, exit) ==
    IF audio \in {"none", "missing"}
    THEN ComposerResult("copy", 0, 0, 0, FALSE, 0, FALSE, "")
    ELSE VideoComposer_merge_segment(video_dur, audio_dur, exit)

\* a concatenation that cross-fades whenever a crossfade is asked for
concatenate_XfadeAny(n, crossfade, exit) ==
    IF n = 0 THEN ComposerResult("none", 0, 0, 0, FALSE, 0, TRUE,
                                 "No segments to concatenate")
    ELSE IF n = 1 THEN ComposerResult("copy", 0, 0, 0, FALSE, 0, FALSE, "")
    ELSE IF crossfade <= 0
         THEN RunFfmpeg("demuxer", 0, 0, 0, FALSE, exit, "FFmpeg concat")
    ELSE RunFfmpeg("xfade", 0, 0, 0, FALSE, exit, "FFmpeg xfade")

\* VideoComposer.concatenate of n segments, with _concat_demuxer and
\* _concat_xfade
concatenate(n, crossfade, exit) ==
    IF n = 0 THEN ComposerResult("none", 0, 0, 0, FALSE, 0, TRUE,
                                 "No segments to concatenate")
    ELSE IF n = 1 THEN ComposerResult("copy", 0, 0, 0, FALSE, 0, FALSE, "")
    ELSE IF crossfade <= 0
         THEN RunFfmpeg("demuxer", 0, 0, 0, FALSE, exit, "FFmpeg concat")
    ELSE IF n = 2
         THEN RunFfmpeg("xfade", 0, 0, 0, FALSE, exit, "FFmpeg xfade")
    ELSE RunFfmpeg("demuxer", 0, 0, 0, FALSE, exit, "FFmpeg concat")

\* renderer/composer.py concat_segments: crossfade is always 0
concat_segments(n, exit) ==
    IF n = 0 THEN ComposerResult("none", 0, 0, 0, FALSE, 0, TRUE,
                                 "No segments to concatenate")
    ELSE concatenate(n, 0, exit)

\* the arguments the composer is called with
HalfSeconds == 6..12

SegmentCounts == 0..4

Crossfades == {-1, 0, 1}

ExitCodes == {0, 1}

ComposerCall(fn, audio, video_dur, audio_dur, n, crossfade, exit, out) ==
    [fn |-> fn, audio |-> audio, video_dur |-> video_dur, audio_dur |-> audio_dur,
     n |-> n, crossfade |-> crossfade, exit |-> exit, out |-> out]

InitComposer ==
    /\ comp_call = <<>>
    /\ cbeats = <<>> /\ merge_tasks = <<>> /\ merge_result = <<>>
    /\ merge_finish = <<>> /\ compose_pc = "idle" /\ final_segments = <<>>
    /\ min_beat_duration = 0 /\ durations = <<>> /\ audio_paths = {}
    /\ scene_duration = <<>> /\ merge_mode = <<>> /\ ffmpeg_calls = <<>>
    /\ PlanIdle /\ RenderIdle /\ AudioIdle

\* composer.merge_segment(video_path, audio_path, output_path)
MergeSegmentCall ==
    /\ \E audio \in {"none", "missing", "file"}, exit \in ExitCodes :
       \E v \in (IF audio = "file" THEN HalfSeconds ELSE {0}),
          a \in (IF audio = "file" THEN HalfSeconds ELSE {0}) :
         comp_call' = << ComposerCall("merge_segment", audio, v, a, 0, 0, exit,
                                      merge_segment(audio, v, a, exit)) >>
    /\ UNCHANGED <<cbeats, merge_tasks, merge_result, merge_finish, compose_pc,
                   final_segments, syncVars, ffmpeg_calls>>
    /\ UNCHANGED <<planVars, renderVars, audioVars>>

\* VideoComposer.concatenate(segment_paths, output_path, crossfade)
ConcatenateCall ==
    /\ \E n \in SegmentCounts, crossfade \in Crossfades, exit \in ExitCodes :
         comp_call' = << ComposerCall("concatenate", "", 0, 0, n, crossfade, exit,
                                      concatenate(n, crossfade, exit)) >>
    /\ UNCHANGED <<cbeats, merge_tasks, merge_result, merge_finish, compose_pc,
                   final_segments, syncVars, ffmpeg_calls>>
    /\ UNCHANGED <<planVars, renderVars, audioVars>>

\* composer.concat_segments(segment_paths, output_path)
ConcatSegmentsCall ==
    /\ \E n \in SegmentCounts, exit \in ExitCodes :
         comp_call' = << ComposerCall("concat_segments", "", 0, 0, n, 0, exit,
                                      concat_segments(n, exit)) >>
    /\ UNCHANGED <<cbeats, merge_tasks, merge_result, merge_finish, compose_pc,
                   final_segments, syncVars, ffmpeg_calls>>
    /\ UNCHANGED <<planVars, renderVars, audioVars>>

NextComposer == MergeSegmentCall \/ ConcatenateCall \/ ConcatSegmentsCall

SpecComposer == InitComposer /\ [][NextComposer]_vars

(***************************************************************************)
(* main.py steps 5-7: render, merge per beat, concatenate                  *)
(***************************************************************************)
max_render_workers == 4

\* scene_builder.build_all_scene_files: one (beat_id, class_name) entry per
\* beat, in plan order
SceneEntryFor(bid) == CHOOSE e \in SceneEntries : e.seg_id = bid

build_all_scene_files(order) == [i \in DOMAIN order |-> SceneEntryFor(order[i])]

\* beat_order of the plans composed: any order of distinct beats
BeatOrders ==
    { [i \in DOMAIN t |-> t[i].seg_id] : t \in TaskLists \ {<<>>} }

\* the  for bid in beat_order  loop: one merge coroutine per beat that has a
\* rendered video, in plan order
MergeTasksFrom_AudioOnly(order, rmap) ==
    SelectSeq(order, LAMBDA bid : bid \in DOMAIN rmap /\ bid \in audio_paths)

RECURSIVE MergeTasksFrom(_, _)
MergeTasksFrom(order, rmap) ==
    IF order = <<>> THEN <<>>
    ELSE IF Head(order) \in DOMAIN rmap
         THEN <<Head(order)>> \o MergeTasksFrom(Tail(order), rmap)
         ELSE MergeTasksFrom(Tail(order), rmap)

\* [r for r in merged_results if not isinstance(r, Exception)]; gather
\* returns its results in the order of merge_tasks
RECURSIVE FinalSegmentsFrom(_, _, _)
FinalSegmentsFrom(mt, mr, k) ==
    IF k > Len(mt) THEN <<>>
    ELSE IF mr[k] = "ok"
         THEN <<mt[k]>> \o FinalSegmentsFrom(mt, mr, k + 1)
         ELSE FinalSegmentsFrom(mt, mr, k + 1)

RECURSIVE FinishedOkFrom(_, _, _)
FinishedOkFrom(mt, mr, fin) ==
    IF fin = <<>> THEN <<>>
    ELSE IF mr[Head(fin)] = "ok"
         THEN <<mt[Head(fin)]>> \o FinishedOkFrom(mt, mr, Tail(fin))
         ELSE FinishedOkFrom(mt, mr, Tail(fin))

FinalSegments_CompletionOrder(mt, mr) == FinishedOkFrom(mt, mr, merge_finish)

FinalSegments(mt, mr) == FinalSegmentsFrom(mt, mr, 1)

\* build_all_scene_files: durations.get(beat_id, 10.0) becomes the scene's
\* total_duration, which the scene pads its animation to
default_scene_duration == 10

SceneDurationFor(durs, bid) ==
    IF bid \in DOMAIN durs THEN durs[bid] ELSE default_scene_duration

\* VideoComposer._get_duration: the length ffprobe prints, or 5.0 when its
\* output is not a number
ffprobe_fallback == 5

get_duration(actual) == {actual, ffprobe_fallback}

\* VideoComposer.merge_segment:  if audio_dur > video_dur + 0.5  pad the
\* video, else trim to the audio
MergeDirection(video_dur, audio_dur) ==
    VideoComposer_merge_segment(2 * video_dur, 2 * audio_dur, 0).via

\* length of the video rendered for a beat: its scene's total_duration
VideoLength(bid) ==
    scene_duration[CHOOSE i \in DOMAIN tasks : tasks[i].seg_id = bid]

\* [str(r) for r in merged_results if isinstance(r, Exception)]
RECURSIVE MergeFailuresFrom(_, _)
MergeFailuresFrom(mr, k) ==
    IF k > Len(mr) THEN <<>>
    ELSE (IF mr[k] = "exc" THEN <<"FFmpeg merge failed: stderr">> ELSE <<>>)
         \o MergeFailuresFrom(mr, k + 1)

\* one entry of ffmpeg_calls
FfmpegCall(stage, bid, out, exit) ==
    [stage |-> stage, bid |-> bid, via |-> out.via, rate |-> out.rate, exit |-> exit]

\* the job after steps 1-4 of a plan whose first n beats have a wav file: a
\* 12 s clip for each of them, the durations of step 3
InitCompose ==
    /\ cbeats \in BeatOrders
    /\ compose_pc = "render"
    /\ merge_tasks = <<>> /\ merge_result = <<>> /\ merge_finish = <<>>
    /\ final_segments = <<>>
    /\ min_beat_duration = 10
    /\ \E S \in { { cbeats[i] : i \in 1..n } : n \in 0..Len(cbeats) } :
         /\ audio_paths = S
         /\ audio_clips = [bid \in S |-> AudioClip("wav", 12)]
         /\ durations = [bid \in { cbeats[i] : i \in DOMAIN cbeats } |->
                           IF bid \in S THEN 12 ELSE 10]
    /\ scene_duration = <<>> /\ merge_mode = <<>>
    /\ ffmpeg_calls = <<>> /\ comp_call = <<>>
    /\ job = [NoJob EXCEPT !.total_beats = <<Len(cbeats)>>]
    /\ abeats = <<>> /\ astate = <<>> /\ aresult = <<>> /\ audio_pc = "idle"
    /\ manifest = <<>> /\ blobs = <<>> /\ wav_files = {}
    /\ manifest_file = <<>> /\ acalls = <<>>
    /\ cache_log = <<>> /\ stored = <<>> /\ job_caches = <<>>
    /\ plan_pc = "idle" /\ duration_mins = 0 /\ outline_calls = 0
    /\ outline_failures = 0 /\ ch_failures = <<>>
    /\ outline = NoOutline /\ ch_calls = <<>> /\ ch_result = <<>>
    /\ finish_order = <<>> /\ beats = <<>> /\ validation_errors = <<>>
    /\ fn_call = <<>>
    /\ status = "rendering"
    /\ RenderIdle

\* steps 4-5 and the start of step 6: the scene files are built with the
\* durations map, render_all_parallel returns its two maps;
\* with no rendered beat the job fails, otherwise the merge coroutines are
\* created in plan order and gathered
RenderAll ==
    /\ compose_pc = "render"
    /\ status = "rendering"
    /\ LET ts == build_all_scene_files(cbeats) IN
       \E kinds \in [DOMAIN ts -> RenderKinds] :
         LET results == [i \in DOMAIN ts |-> render_segment_subprocess(ts[i], kinds[i])]
             maps    == Collect(ts, results)
         IN  /\ tasks' = ts
             /\ max_workers' = max_render_workers
             /\ sem' = max_render_workers
             /\ scene_duration' =
                  [i \in DOMAIN ts |-> SceneDurationFor(durations, ts[i].seg_id)]
             /\ rstate' = [i \in DOMAIN ts |-> "done"]
             /\ routcome' = results
             /\ render_pc' = "returned"
             /\ rendered' = maps.rendered
             /\ errors' = maps.errors
             /\ IF maps.rendered = <<>>
                THEN /\ compose_pc' = "failed"
                     /\ status' = "failed"
                     /\ job' = [job EXCEPT !.error =
                                  <<"All " \o ToString(Len(cbeats))
                                      \o " beats failed to render.">>]
                     /\ UNCHANGED <<merge_tasks, merge_result, merge_mode>>
                ELSE /\ compose_pc' = "merging"
                     /\ status' = "composing"
                     /\ job' = [job EXCEPT !.render_errors = <<maps.errors>>]
                     /\ merge_tasks' = MergeTasksFrom(cbeats, maps.rendered)
                     /\ merge_result' =
                          [k \in DOMAIN MergeTasksFrom(cbeats, maps.rendered) |-> "pending"]
                     /\ merge_mode' =
                          [k \in DOMAIN MergeTasksFrom(cbeats, maps.rendered) |-> "none"]
    /\ UNCHANGED <<cbeats, merge_finish, final_segments, ffmpeg_calls, comp_call>>
    /\ UNCHANGED <<min_beat_duration, durations, audio_paths>>
    /\ UNCHANGED <<planState, audioVars>>

\* composer.merge_segment of merge task k returns its output path or
\* raises: the video is copied when the beat has no audio path, else ffprobe
\* measures both files and ffmpeg merges them
MergeEnd(k) ==
    /\ compose_pc = "merging"
    /\ merge_result[k] = "pending"
    /\ LET bid   == merge_tasks[k]
           audio == IF bid \in audio_paths THEN "file" ELSE "none"
       IN  \E exit \in (IF audio = "file" THEN ExitCodes ELSE {0}),
              v \in (IF audio = "file" THEN get_duration(VideoLength(bid)) ELSE {0}),
              a \in (IF audio = "file" THEN get_duration(audio_clips[bid].duration)
                                       ELSE {0}) :
             LET out == merge_segment(audio, 2 * v, 2 * a, exit) IN
             /\ merge_result' = [merge_result EXCEPT
                                   ![k] = IF out.raised THEN "exc" ELSE "ok"]
             /\ merge_mode' = [merge_mode EXCEPT ![k] = out.via]
             /\ ffmpeg_calls' = ffmpeg_calls \o
                   [j \in 1..out.runs |-> FfmpegCall("merge", bid, out, exit)]
    /\ merge_finish' = Append(merge_finish, k)
    /\ UNCHANGED <<cbeats, merge_tasks, compose_pc, final_segments, comp_call>>
    /\ UNCHANGED <<min_beat_duration, durations, audio_paths, scene_duration>>
    /\ UNCHANGED <<planVars, renderVars, audioVars>>

\* gather(*merge_tasks, return_exceptions=True) returns; the surviving
\* segments are handed to concat_segments, or the job fails with none
MergeReturn ==
    /\ compose_pc = "merging"
    /\ \A k \in DOMAIN merge_tasks : merge_result[k] # "pending"
    /\ final_segments' = FinalSegments(merge_tasks, merge_result)
    /\ IF FinalSegments(merge_tasks, merge_result) = <<>>
       THEN /\ compose_pc' = "failed" /\ status' = "failed"
            /\ job' = [job EXCEPT !.error = <<"No beats merged successfully.">>]
       ELSE compose_pc' = "concat" /\ UNCHANGED <<status, job>>
    /\ UNCHANGED <<cbeats, merge_tasks, merge_result, merge_finish, syncVars,
                   ffmpeg_calls, comp_call>>
    /\ UNCHANGED <<planState, renderVars, audioVars>>

\* the counts of the completed record
CompletedJob ==
    [job EXCEPT !.beats_rendered = <<Len(final_segments)>>,
                !.beats_dropped = <<Len(cbeats) - Len(final_segments)>>,
                !.drop_reasons = <<MergeFailuresFrom(merge_result, 1)>>]

\* an upload whose exception puts the job back to composing
StatusAfterUpload_BackToComposing(raised) ==
    IF raised THEN "composing" ELSE "completed"

\* the inner try of step 8: the exception of the upload is logged and the
\* completed record is written all the same
StatusAfterUpload(raised) == "completed"

\* steps 7-8: concat_segments writes the final video and the job is
\* completed with its counts, or the concatenation raises and the job fails
ConcatEnd(r2_enabled) ==
    /\ compose_pc = "concat"
    /\ \E exit \in (IF Len(final_segments) > 1 THEN ExitCodes ELSE {0}) :
         LET out == concat_segments(Len(final_segments), exit) IN
         /\ ffmpeg_calls' = ffmpeg_calls \o
               [j \in 1..out.runs |-> FfmpegCall("concat", "", out, exit)]
         /\ IF out.raised
            THEN /\ compose_pc' = "failed" /\ status' = "failed"
                 /\ job' = [job EXCEPT !.error = <<out.message>>]
            ELSE IF r2_enabled
                 THEN /\ compose_pc' = "upload" /\ status' = "uploading"
                      /\ UNCHANGED job
                 ELSE /\ compose_pc' = "completed" /\ status' = "completed"
                      /\ job' = CompletedJob
    /\ UNCHANGED <<cbeats, merge_tasks, merge_result, merge_finish, final_segments,
                   syncVars, comp_call>>
    /\ UNCHANGED <<planState, renderVars, audioVars>>

\* step 8 with R2 configured: upload_video returns the public url, or raises
\* and the local url is kept; either way the job is completed
UploadEnd ==
    /\ compose_pc = "upload"
    /\ \E raised \in BOOLEAN :
         /\ status' = StatusAfterUpload(raised)
         /\ job' = CompletedJob
    /\ compose_pc' = "completed"
    /\ UNCHANGED <<cbeats, merge_tasks, merge_result, merge_finish, final_segments,
                   syncVars, ffmpeg_calls, comp_call>>
    /\ UNCHANGED <<planState, renderVars, audioVars>>

\* steps 5-7 with R2 not configured (settings.r2_enabled is False)
NextCompose ==
    \/ RenderAll
    \/ \E k \in DOMAIN merge_tasks : MergeEnd(k)
    \/ MergeReturn
    \/ ConcatEnd(FALSE)

SpecCompose == InitCompose /\ [][NextCompose]_vars

(***************************************************************************)
(* SpecPipeline: main.py steps 3-7, from audio synthesis to concatenation  *)
(***************************************************************************)
\* lengths of the plans taken through steps 3-7
PipelineSizes == {1, 2}

\* values of settings.min_beat_duration considered (default 10.0)
MinDurations == {5, 10}

\* tts_dur when the beat has no clip or its clip's duration is not positive
fallback_duration == 8

PipelineBeatIds == <<"b2", "b1", "b10">>

PipelineBeatLists ==
    UNION { { [i \in 1..n |-> [beat_id |-> PipelineBeatIds[i], narration |-> f[i]]] :
                f \in [1..n -> Narrations] } : n \in PipelineSizes }

\* tts_dur = clip.duration if (clip and clip.duration > 0) else 8.0
\* durations[bid] = max(tts_dur, settings.min_beat_duration)
effective_duration_NoFallback(clips, bid, m) ==
    Max2(IF bid \in DOMAIN clips THEN clips[bid].duration ELSE 0, m)

effective_duration(clips, bid, m) ==
    Max2(IF bid \in DOMAIN clips /\ clips[bid].duration > 0
         THEN clips[bid].duration ELSE fallback_duration, m)

\* the  for beat in beats  loop of step 3 building durations
RECURSIVE DurationMapFrom(_, _, _, _)
DurationMapFrom(bs, clips, m, acc) ==
    IF bs = <<>> THEN acc
    ELSE DurationMapFrom(Tail(bs), clips, m,
                         DictPut(acc, Head(bs).beat_id,
                                 effective_duration(clips, Head(bs).beat_id, m)))

DurationMap_AudioOnly(bs, clips, m) ==
    LET all == DurationMapFrom(bs, clips, m, <<>>)
    IN  [bid \in (DOMAIN all) \cap (DOMAIN clips) |-> all[bid]]

DurationMap(bs, clips, m) == DurationMapFrom(bs, clips, m, <<>>)

\* audio_paths: the beats whose <bid>.wav exists in the job's audio_dir
AudioPaths(bs, files) == { bs[i].beat_id : i \in DOMAIN bs } \cap files

InitPipeline ==
    /\ abeats \in PipelineBeatLists
    /\ astate = [i \in DOMAIN abeats |-> "pending"]
    /\ aresult = [i \in DOMAIN abeats |-> NoResult]
    /\ audio_pc = "gather"
    /\ audio_clips = <<>>
    /\ \E c \in InitialCaches : manifest = c.manifest /\ blobs = c.blobs
    /\ manifest_file = manifest
    /\ wav_files = {}
    /\ acalls = [i \in DOMAIN abeats |-> <<>>]
    /\ cache_log = <<>> /\ stored = <<>> /\ job_caches = <<>>
    /\ cbeats = [i \in DOMAIN abeats |-> abeats[i].beat_id]
    /\ compose_pc = "audio"
    /\ merge_tasks = <<>> /\ merge_result = <<>> /\ merge_finish = <<>>
    /\ final_segments = <<>>
    /\ min_beat_duration \in MinDurations
    /\ durations = <<>> /\ audio_paths = {}
    /\ scene_duration = <<>> /\ merge_mode = <<>>
    /\ ffmpeg_calls = <<>> /\ comp_call = <<>>
    /\ job = [NoJob EXCEPT !.total_beats = <<Len(abeats)>>]
    /\ plan_pc = "idle" /\ duration_mins = 0 /\ outline_calls = 0
    /\ outline_failures = 0 /\ ch_failures = <<>>
    /\ outline = NoOutline /\ ch_calls = <<>> /\ ch_result = <<>>
    /\ finish_order = <<>> /\ beats = <<>> /\ validation_errors = <<>>
    /\ fn_call = <<>>
    /\ status = "generating_audio"
    /\ RenderIdle

\* the rest of step 3: generate_all_audio has returned; one duration per
\* beat of the plan, and an audio path for every beat whose wav file exists
DurationSync ==
    /\ compose_pc = "audio"
    /\ audio_pc = "returned"
    /\ durations' = DurationMap(abeats, audio_clips, min_beat_duration)
    /\ audio_paths' = AudioPaths(abeats, wav_files)
    /\ compose_pc' = "render"
    /\ status' = "building_scenes"
    /\ UNCHANGED <<cbeats, merge_tasks, merge_result, merge_finish, final_segments,
                   min_beat_duration, scene_duration, merge_mode, ffmpeg_calls,
                   comp_call>>
    /\ UNCHANGED <<planState, job, renderVars, audioVars>>

\* step 4: the scene files are written and the job moves on to rendering
\* (RenderAll takes the task list from build_all_scene_files)
BuildScenes ==
    /\ compose_pc = "render"
    /\ status = "building_scenes"
    /\ status' = "rendering"
    /\ UNCHANGED <<planState, job, renderVars, audioVars, composeVars>>

NextPipeline ==
    \/ \E i \in DOMAIN abeats : AudioBegin(i)
    \/ \E i \in DOMAIN abeats : AudioSynthEnd(i)
    \/ AudioReturn
    \/ DurationSync
    \/ BuildScenes
    \/ RenderAll
    \/ \E k \in DOMAIN merge_tasks : MergeEnd(k)
    \/ MergeReturn
    \/ \E r2_enabled \in BOOLEAN : ConcatEnd(r2_enabled)
    \/ UploadEnd

SpecPipeline == InitPipeline /\ [][NextPipeline]_vars

(***************************************************************************)
(* SpecJob: _run_pipeline from either of its two halves: steps 1-2 from    *)
(* the request (SpecPlan), or steps 3-8 from a validated plan              *)
(* (SpecPipeline)                                                          *)
(***************************************************************************)
InitJob == PlanStart("queued") \/ InitPipeline

\* the background task starts: _run_pipeline sets the job to planning
JobStart ==
    /\ status = "queued"
    /\ status' = "planning"
    /\ UNCHANGED <<planState, job, renderVars, audioVars, composeVars>>

NextJob == JobStart \/ NextPlan \/ NextPipeline

SpecJob == InitJob /\ [][NextJob]_vars

\* The event loop runs every ready coroutine, and a render subprocess ends or
\* is killed at its 300 s timeout, so the steps of the job's own code are
\* taken when they are enabled. The answers of a completion call, of a
\* synthesis call and of an ffmpeg run (OutlineAttempt, ChapterAttempt,
\* AudioSynthEnd, MergeEnd, ConcatEnd, UploadEnd) are awaited without a timeout: nothing
\* makes them arrive.
SpecJobFair ==
    /\ SpecJob
    /\ WF_vars(JobStart) /\ WF_vars(BuildScenes)
    /\ WF_vars(AssemblePlan) /\ WF_vars(ValidatePlan)
    /\ WF_vars(\E i \in DOMAIN abeats : AudioBegin(i))
    /\ WF_vars(AudioReturn) /\ WF_vars(DurationSync)
    /\ WF_vars(RenderAll) /\ WF_vars(MergeReturn)

\* Every external call returns or raises: whatever step of the job is
\* enabled is eventually taken.
SpecJobReturning == SpecJob /\ WF_vars(NextJob)

(***************************************************************************)
(* Claims about plan generation (SpecPlan)                                 *)
(***************************************************************************)
\* Position in the plan of the last beat before chapter i's beats: the
\* lists of the chapters before i plus one separator per chapter after
\* the first
ChapterStart(i) == SumLen(chapter_beats_lists, i - 1) + (i - 1)

\* The part of the plan that chapter i contributed
ChapterSlice(i) ==
    SubSeq(beats, ChapterStart(i) + 1, ChapterStart(i) + Len(ch_result[i].beats))

\* The beat lists the completion service offered for chapter i that pass
\* parsing and validation
GeneratedLists(i) ==
    { ParseChapter(r.value).items :
        r \in { x \in ChapterResponses(outline.chapters[i].id) : ChapterAttemptOk(x) } }

\* C7: a chapter makes at most 3 completion calls; when all its attempts
\* fail the job does not fail and the chapter contributes exactly one
\* text-card beat stating its title, and every chapter whose generation
\* succeeded contributes its full generated list to the plan.
C7_FallbackKeepsJobAlive ==
    \A i \in DOMAIN ch_result :
      /\ ch_calls[i] <= 3
      /\ ch_failures[i] = 3 =>
           /\ ch_calls[i] = 3
           /\ status # "failed"
           /\ ch_result[i].returned
           /\ Len(ch_result[i].beats) = 1
           /\ ch_result[i].beats[1].visual =
                [type |-> "text_card", text |-> outline.chapters[i].title]
           /\ plan_pc = "returned" =>
                /\ ChapterSlice(i) = ch_result[i].beats
                /\ \A j \in DOMAIN ch_result :
                     ch_failures[j] < 3 =>
                       /\ ch_result[j].beats \in GeneratedLists(j)
                       /\ ChapterSlice(j) = ch_result[j].beats

C7_Witness ==
    /\ plan_pc = "returned"
    /\ \E i, j \in DOMAIN ch_result :
         /\ ch_failures[i] = 3
         /\ ch_failures[j] < 3
         /\ Len(ch_result[j].beats) = MaxGoodBeats

C9_ChapterOrderKept ==
    plan_pc = "returned" =>
      /\ AllChaptersReturned
      /\ \A i \in DOMAIN ch_result : ChapterSlice(i) = ch_result[i].beats
      /\ Len(beats) = ChapterStart(Len(ch_result) + 1)

C9_Witness ==
    /\ plan_pc = "returned"
    /\ finish_order[1] # 1
    /\ \E i \in DOMAIN ch_result : ch_failures[i] > 0
    /\ \E i, j \in DOMAIN ch_result : ch_result[i].beats # ch_result[j].beats

\* C11: when validate_beats reports an error for the assembled plan, the job
\* does not go on to audio synthesis with that plan.
C11_ValidationErrorStopsJob ==
    validation_errors # <<>> => status # "generating_audio"

\* C10: every plan that goes on to audio synthesis has pairwise distinct beat_ids.
C10_BeatIdsDistinct ==
    status = "generating_audio" =>
      \A p, q \in DOMAIN beats : p # q => beats[p].beat_id # beats[q].beat_id

Running == { i \in DOMAIN tasks : rstate[i] = "running" }

FailedTasks == { i \in DOMAIN tasks : rstate[i] = "done" /\ ~routcome[i].ok }

SucceededTasks == { i \in DOMAIN tasks : rstate[i] = "done" /\ routcome[i].ok }

SegIds(S) == { tasks[i].seg_id : i \in S }

\* C2: when the scheduler has returned for N tasks of which K failed, the
\* success map has N-K entries, the error map has K entries, and no beat_id
\* is a key of both.
C2_MapSizes ==
    render_pc = "returned" =>
      /\ Cardinality(DOMAIN rendered) = Len(tasks) - Cardinality(FailedTasks)
      /\ Cardinality(DOMAIN errors) = Cardinality(FailedTasks)
      /\ (DOMAIN rendered) \cap (DOMAIN errors) = {}

\* C3: the keys of the error map are the beat_ids of the failed tasks, each
\* failed task's message is stored under its own beat_id, and every
\* submitted beat_id is a key of exactly one of the two maps.
C3_ErrorKeysAreFailedBeats ==
    render_pc = "returned" =>
      /\ DOMAIN errors = SegIds(FailedTasks)
      /\ \A i \in FailedTasks :
            errors[tasks[i].seg_id] = Truncate(routcome[i].msg, 500)
      /\ \A i \in DOMAIN tasks :
            (tasks[i].seg_id \in DOMAIN rendered)
              # (tasks[i].seg_id \in DOMAIN errors)

\* C4: at every moment the number of render subprocesses that are running
\* is at most max_workers.
C4_ConcurrencyBounded ==
    render_pc # "idle" =>
      /\ Cardinality(Running) <= max_workers
      /\ sem = max_workers - Cardinality(Running)

C4_Witness ==
    /\ Cardinality(Running) = max_workers
    /\ \E i \in DOMAIN tasks : rstate[i] = "waiting"
    /\ FailedTasks # {}

\* a step in which a render task ends with a non-zero exit or a timeout
EndsInFailure(i) ==
    /\ rstate[i] = "running"
    /\ rstate'[i] = "done"
    /\ ~routcome'[i].ok

\* C5: a task that ends in failure gives its slot back and leaves every
\* sibling as it was; every task reaches its own outcome, and the stage
\* returns, only after all tasks are done.
C5_FailureReleasesSlot ==
    /\ [][\A i \in DOMAIN tasks : EndsInFailure(i) =>
            /\ sem' = sem + 1
            /\ \A j \in DOMAIN tasks \ {i} :
                 rstate'[j] = rstate[j] /\ routcome'[j] = routcome[j]]_vars
    /\ [](render_pc = "returned" => \A i \in DOMAIN tasks : rstate[i] = "done")
    /\ <>(render_pc = "returned")

C5_Witness ==
    /\ render_pc = "returned"
    /\ Len(tasks) > max_workers
    /\ \E i \in FailedTasks : Contains(routcome[i].msg, tasks[i].class_name)
    /\ SucceededTasks # {}

(***************************************************************************)
(* Claims about the audio orchestrator (SpecAudio)                         *)
(***************************************************************************)
BeatIdsIn(state) == { abeats[i].beat_id : i \in { j \in DOMAIN abeats : astate[j] = state } }

\* C6: a beat whose synthesis raised leaves its siblings untouched, and the
\* returned map has as keys the beat_ids whose synthesis succeeded
\* (blank-narration sentinels included) and none of those whose synthesis
\* raised.
C6_AudioFailureIsolated ==
    /\ [][\A i \in DOMAIN abeats :
            (astate[i] = "synth" /\ astate'[i] = "failed") =>
               /\ audio_pc' = "gather"
               /\ \A j \in DOMAIN abeats \ {i} :
                    astate'[j] = astate[j] /\ aresult'[j] = aresult[j]]_vars
    /\ [](audio_pc = "returned" =>
            /\ DOMAIN audio_clips = BeatIdsIn("ok")
            /\ (DOMAIN audio_clips) \cap BeatIdsIn("failed") = {}
            /\ BeatIdsIn("ok") \cup BeatIdsIn("failed")
                 = { abeats[i].beat_id : i \in DOMAIN abeats }
            /\ \A i \in DOMAIN abeats :
                 astate[i] = "ok" => audio_clips[abeats[i].beat_id] = aresult[i].clip[1])

C6_Witness ==
    /\ audio_pc = "returned"
    /\ BeatIdsIn("failed") # {}
    /\ \E i \in DOMAIN abeats :
         astate[i] = "ok" /\ audio_clips[abeats[i].beat_id] = SentinelClip
    /\ \E i \in DOMAIN abeats :
         astate[i] = "ok" /\ audio_clips[abeats[i].beat_id].audio_bytes # ""

\* the beats with narration that is not blank
Spoken == { i \in DOMAIN abeats : Strip(abeats[i].narration) # <<>> }

\* C18: a beat with non-empty narration that got its clip made either one
\* cache lookup that hit and returned the cached clip (no synthesis call, no
\* cache write), or a lookup that missed, exactly one synthesis call, one
\* trim and one put of the trimmed clip under the key looked up, and
\* returned the clip it stored.  A beat whose synthesis call raised made the
\* lookup and that one call, and no put.
C18_HitOrSingleSynthesis ==
    \A i \in Spoken :
        LET calls == acalls[i] IN
        /\ astate[i] = "ok" =>
              LET clip == aresult[i].clip[1] IN
              \/ /\ Len(calls) = 1
                 /\ calls[1].call = "get"
                 /\ calls[1].clip = <<clip>>
              \/ /\ Len(calls) = 4
                 /\ calls[1].call = "get" /\ calls[1].clip = <<>>
                 /\ calls[2].call = "generate"
                 /\ calls[2].key = Strip(abeats[i].narration)
                 /\ calls[3].call = "trim"
                 /\ calls[4].call = "put"
                 /\ calls[4].key = calls[1].key
                 /\ calls[4].clip = calls[3].clip
                 /\ calls[4].clip = <<clip>>
        /\ astate[i] = "failed" =>
              /\ Len(calls) = 2
              /\ calls[1].call = "get" /\ calls[1].clip = <<>>
              /\ calls[2].call = "generate" /\ calls[2].clip = <<>>

\* one beat served from the cache and one synthesised, trimmed and stored
C18_Witness ==
    \E i, j \in Spoken :
        /\ astate[i] = "ok" /\ Len(acalls[i]) = 1
        /\ astate[j] = "ok" /\ Len(acalls[j]) = 4
        /\ acalls[j][3].how = "trimmed"

\* C19: a beat whose narration is empty or only whitespace gets the clip with
\* no bytes and a duration of 5 seconds without any synthesis call, cache get
\* or cache put, and is in the returned map as a success.
C19_BlankNarrationSentinel ==
    \A i \in (DOMAIN abeats) \ Spoken :
        astate[i] # "pending" =>
            /\ astate[i] = "ok"
            /\ aresult[i].bid = abeats[i].beat_id
            /\ aresult[i].clip = <<AudioClip("", 5)>>
            /\ acalls[i] = <<>>
            /\ audio_pc = "returned" =>
                  /\ abeats[i].beat_id \in DOMAIN audio_clips
                  /\ audio_clips[abeats[i].beat_id] = AudioClip("", 5)

\* generate_all_audio has returned for a list with a blank beat and a beat
\* that went to the cache and the synthesis service
C19_Witness ==
    /\ audio_pc = "returned"
    /\ \E i \in (DOMAIN abeats) \ Spoken : abeats[i].beat_id \in DOMAIN audio_clips
    /\ \E j \in Spoken : Len(acalls[j]) = 4

\* the beats whose trimming did not go through: pydub missing, or it raised
TrimFellBack ==
    { i \in Spoken : Len(acalls[i]) = 4 /\ acalls[i][3].how \in {"unavailable", "failed"} }

\* C20: when the silence trim fails or cannot be done, synthesis of the beat
\* still succeeds, and the clip the service returned is the one stored in
\* the cache and returned, untrimmed.
C20_TrimFailureFallsBack ==
    \A i \in TrimFellBack :
        /\ astate[i] = "ok"
        /\ acalls[i][2].clip # <<>>
        /\ acalls[i][4].call = "put"
        /\ acalls[i][4].clip = acalls[i][2].clip
        /\ aresult[i].clip = acalls[i][2].clip
        /\ audio_pc = "returned" =>
              /\ abeats[i].beat_id \in DOMAIN audio_clips
              /\ <<audio_clips[abeats[i].beat_id]>> = acalls[i][2].clip

\* both kinds of fallback in one returned job
C20_Witness ==
    /\ audio_pc = "returned"
    /\ \E i, j \in TrimFellBack :
          /\ acalls[i][3].how = "unavailable"
          /\ acalls[j][3].how = "failed"
          /\ aresult[i].clip[1].audio_bytes = "pcm"

(***************************************************************************)
(* Claims about the audio cache (SpecCache)                                *)
(***************************************************************************)
\* exactly one of text, voice, language differs
DiffersInOne(t, u) == Cardinality({ n \in 1..3 : t[n] # u[n] }) = 1

\* C16: on a single cache, a get returns the clip (bytes and duration) last
\* put under the same (text, voice, language) and still there, and is a miss
\* for a triple with nothing stored under it, one that differs from a stored
\* triple in a single component included.
C16_PutGetRoundTrip ==
    \A i \in DOMAIN cache_log :
        cache_log[i].op = "get" => cache_log[i].result = cache_log[i].held

\* a put, a get of the same triple that returns the clip put, then a get of
\* a triple differing in one component that misses
C16_Witness ==
    /\ Len(cache_log) = 3
    /\ cache_log[1].op = "put"
    /\ cache_log[2].op = "get"
    /\ cache_log[2].triple = cache_log[1].triple
    /\ cache_log[2].result = cache_log[1].clip
    /\ cache_log[3].op = "get"
    /\ DiffersInOne(cache_log[3].triple, cache_log[1].triple)
    /\ cache_log[3].result = <<>>

\* C17: whatever calls and blob deletions came before, a get that finds a
\* manifest entry whose blob is missing returns a miss and leaves the entry
\* neither in the in-memory manifest nor in the manifest file.
C17_StaleEntryPurged ==
    cache_log # <<>> =>
        LET c == cache_log[Len(cache_log)] IN
        (c.op = "get" /\ c.stale) =>
            /\ c.result = <<>>
            /\ KeyOf(c.triple) \notin DOMAIN manifest
            /\ KeyOf(c.triple) \notin DOMAIN manifest_file

\* put, the blob deleted behind the cache's back, get
C17_Witness ==
    /\ Len(cache_log) = 3
    /\ cache_log[1].op = "put"
    /\ cache_log[2].op = "unlink"
    /\ cache_log[3].op = "get"
    /\ cache_log[3].stale
    /\ cache_log[3].triple = cache_log[1].triple

(***************************************************************************)
(* Claims about merge and concatenation (SpecCompose)                      *)
(***************************************************************************)
\* beat_ids whose render succeeded and whose merge succeeded
Survivors ==
    { bid \in SegIds(SucceededTasks) :
        \E k \in DOMAIN merge_tasks : merge_tasks[k] = bid /\ merge_result[k] = "ok" }

\* a beat order restricted to a set of beat_ids
RECURSIVE Restrict(_, _)
Restrict(order, keep) ==
    IF order = <<>> THEN <<>>
    ELSE IF Head(order) \in keep
         THEN <<Head(order)>> \o Restrict(Tail(order), keep)
         ELSE Restrict(Tail(order), keep)

\* C1: the segments handed to the final concatenation are the plan's beats
\* that rendered and merged successfully, in plan order, whatever the order
\* in which the merges completed.
C1_ConcatInPlanOrder ==
    compose_pc \in {"concat", "completed"} =>
      final_segments = Restrict(cbeats, Survivors)

C1_Witness ==
    /\ compose_pc = "concat"
    /\ Len(cbeats) = 3
    /\ final_segments = <<"b2", "b1">>
    /\ merge_finish[1] > merge_finish[2]

(***************************************************************************)
(* Claims about duration sync and the later stages (SpecPipeline)          *)
(***************************************************************************)
PlanBeatIds == { abeats[i].beat_id : i \in DOMAIN abeats }

Synced == compose_pc \notin {"idle", "audio"}

\* C12: once the durations are computed, every beat_id of the plan, with or
\* without audio, has one entry: max(d, min_beat_duration), where d is the
\* clip's duration if the beat has a clip of positive duration and 8 otherwise.
C12_DurationPerBeat ==
    Synced =>
      /\ DOMAIN durations = PlanBeatIds
      /\ \A bid \in PlanBeatIds :
           LET d == IF bid \in DOMAIN audio_clips /\ audio_clips[bid].duration > 0
                    THEN audio_clips[bid].duration ELSE 8
           IN  durations[bid] = IF d > min_beat_duration THEN d ELSE min_beat_duration

C12_Witness ==
    /\ Synced
    /\ \E bid \in PlanBeatIds : bid \notin DOMAIN audio_clips
    /\ \E bid \in PlanBeatIds :
         bid \in DOMAIN audio_clips /\ audio_clips[bid].duration > min_beat_duration

\* beats whose clip has a positive measured duration, and the others that
\* have a clip
MeasuredBeats == { bid \in DOMAIN audio_clips : audio_clips[bid].duration > 0 }

UnmeasuredBeats == { bid \in DOMAIN audio_clips : audio_clips[bid].duration <= 0 }

\* C14 as stated: for a measured duration d > 0 the effective duration is
\* max(d, m), and for a zero or invalid one it is m.
C14_ZeroDurationGivesMinimum ==
    Synced =>
      /\ \A bid \in MeasuredBeats :
           durations[bid] = Max2(audio_clips[bid].duration, min_beat_duration)
      /\ \A bid \in UnmeasuredBeats : durations[bid] = min_beat_duration

\* C14: for a measured duration d > 0 the effective duration is max(d, m),
\* and for a zero or invalid one it is max(8, m), which is m whenever m >= 8.
C14_ZeroDurationGivesFallback ==
    Synced =>
      /\ \A bid \in MeasuredBeats :
           /\ durations[bid] >= audio_clips[bid].duration
           /\ durations[bid] >= min_beat_duration
           /\ durations[bid] \in {audio_clips[bid].duration, min_beat_duration}
      /\ \A bid \in UnmeasuredBeats :
           /\ durations[bid] >= 8
           /\ durations[bid] >= min_beat_duration
           /\ durations[bid] \in {8, min_beat_duration}
           /\ min_beat_duration >= 8 => durations[bid] = min_beat_duration

C14_Witness ==
    /\ Synced
    /\ min_beat_duration < 8
    /\ UnmeasuredBeats # {}
    /\ \E bid \in MeasuredBeats : audio_clips[bid].duration > min_beat_duration

\* beat_ids whose synthesis raised
FailedSynthesis == BeatIdsIn("failed")

\* the merge tasks that went through VideoComposer.merge_segment
MergedWithAudio == { k \in DOMAIN merge_tasks : merge_mode[k] \in {"pad", "trim"} }

\* C13: the effective duration of a beat is what its scene is paced with,
\* and the compose stage's pad-or-trim direction for the beat is the one the
\* effective duration gives against the beat's audio.
C13_SharedDuration ==
    /\ \A i \in DOMAIN scene_duration :
         durations # <<>> => scene_duration[i] = durations[tasks[i].seg_id]
    /\ \A k \in MergedWithAudio :
         merge_mode[k] = MergeDirection(durations[merge_tasks[k]],
                                        audio_clips[merge_tasks[k]].duration)

\* C15 as stated: a beat whose synthesis raised is in no later map:
\* durations, render tasks, render results, merge tasks.
C15_FailedBeatAbsentLater ==
    \A bid \in FailedSynthesis :
      /\ audio_pc = "returned" => bid \notin DOMAIN audio_clips
      /\ bid \notin DOMAIN durations
      /\ bid \notin SegIds(DOMAIN tasks)
      /\ bid \notin (DOMAIN rendered) \cup (DOMAIN errors)
      /\ \A k \in DOMAIN merge_tasks : merge_tasks[k] # bid

\* C15: a beat whose synthesis raised is left out of the audio map and has no
\* audio path, but it stays in the job: it gets the fallback duration, is a
\* render task, and when it renders it is merged by copying its silent video.
C15_FailedBeatStaysSilent ==
    \A bid \in FailedSynthesis :
      /\ audio_pc = "returned" => bid \notin DOMAIN audio_clips
      /\ bid \notin audio_paths
      /\ Synced =>
           /\ bid \in DOMAIN durations
           /\ durations[bid] >= 8 /\ durations[bid] >= min_beat_duration
           /\ durations[bid] \in {8, min_beat_duration}
      /\ render_pc = "returned" =>
           /\ bid \in SegIds(DOMAIN tasks)
           /\ bid \in DOMAIN rendered =>
                \E k \in DOMAIN merge_tasks :
                  merge_tasks[k] = bid /\ merge_mode[k] \in {"none", "copy"}

C15_Witness ==
    /\ compose_pc = "concat"
    /\ \E bid \in FailedSynthesis :
         /\ \E k \in DOMAIN merge_tasks : merge_tasks[k] = bid /\ merge_mode[k] = "copy"
         /\ \E j \in DOMAIN final_segments : final_segments[j] = bid
    /\ \E k \in MergedWithAudio : merge_result[k] = "ok"

-----------------------------------------------------------------------------
\* Claims about the composer (SpecComposer)

\* the last composer call, when it was a call of fn
Called(fn) == comp_call # <<>> /\ comp_call[1].fn \in fn

\* C26: a beat with no audio, because it has no audio path or because the
\* file is missing, is merged by copying its video: no ffmpeg run, no error.
C26_SilentBeatCopied ==
    (Called({"merge_segment"}) /\ comp_call[1].audio \in {"none", "missing"})
    => /\ comp_call[1].out.via = "copy"
       /\ comp_call[1].out.runs = 0
       /\ ~comp_call[1].out.raised

C26_Witness ==
    /\ Called({"merge_segment"})
    /\ comp_call[1].audio = "missing"
    /\ comp_call[1].exit # 0
    /\ comp_call[1].out.via = "copy"

\* C27: count and crossfade alone choose the concatenation: none raises,
\* one segment is copied without ffmpeg, two with a positive crossfade are
\* cross-faded, three or more, or two and more with crossfade 0, go through
\* the concat demuxer; concat_segments always passes crossfade 0.
C27_ConcatStrategy ==
    Called({"concatenate", "concat_segments"}) =>
      LET c == comp_call[1] IN
      /\ c.fn = "concat_segments" => c.crossfade = 0
      /\ c.n = 0 => c.out.raised /\ c.out.runs = 0
      /\ c.n = 1 => c.out.via = "copy" /\ c.out.runs = 0 /\ ~c.out.raised
      /\ (c.n = 2 /\ c.crossfade > 0) => c.out.via = "xfade"
      /\ (c.n >= 3 \/ (c.n >= 2 /\ c.crossfade = 0)) => c.out.via = "demuxer"

C27_Witness ==
    /\ Called({"concatenate"})
    /\ comp_call[1].n = 3 /\ comp_call[1].crossfade = 1
    /\ comp_call[1].out.via = "demuxer"

\* C29: a beat with audio is padded when the audio is more than 0.5 s longer
\* than the video, by audio - video + 0.5 s of the last frame and muxed with
\* -shortest; otherwise it is re-encoded at 30 fps and cut to the audio.
C29_PadOrTrim ==
    (Called({"merge_segment"}) /\ comp_call[1].audio = "file") =>
      LET c == comp_call[1] IN
      IF c.audio_dur > c.video_dur + 1
      THEN /\ c.out.via = "pad"
           /\ c.out.stop_duration = c.audio_dur - c.video_dur + 1
           /\ c.out.shortest
      ELSE /\ c.out.via = "trim"
           /\ c.out.rate = 30
           /\ c.out.t = c.audio_dur
           /\ ~c.out.shortest

C29_Witness ==
    /\ Called({"merge_segment"}) /\ comp_call[1].audio = "file"
    /\ comp_call[1].audio_dur = comp_call[1].video_dur + 2
    /\ comp_call[1].out.stop_duration = 3

-----------------------------------------------------------------------------
\* Claims about the failures of steps 5-7 (SpecPipeline)

\* the ffmpeg invocations of the merge of beat bid
MergeCallsOf(bid) ==
    { j \in DOMAIN ffmpeg_calls :
        ffmpeg_calls[j].stage = "merge" /\ ffmpeg_calls[j].bid = bid }

ConcatCalls == { j \in DOMAIN ffmpeg_calls : ffmpeg_calls[j].stage = "concat" }

\* the merge tasks whose merge returned a path
MergedOk == { k \in DOMAIN merge_tasks : merge_result[k] = "ok" }

\* C22: an ffmpeg run that exits non-zero is made once, never repeated, and
\* raises with its captured output; a merge that raised drops the segment of
\* its beat alone, and the segments of the other beats are still
\* concatenated.
C22_EncoderFailureOnceAndLocal ==
    /\ \A k \in DOMAIN merge_tasks :
         /\ Cardinality(MergeCallsOf(merge_tasks[k])) <= 1
         /\ \A j \in MergeCallsOf(merge_tasks[k]) :
              ffmpeg_calls[j].exit # 0 <=> merge_result[k] = "exc"
         /\ merge_result[k] = "exc" => MergeCallsOf(merge_tasks[k]) # {}
    /\ Cardinality(ConcatCalls) <= 1
    /\ \A j \in ConcatCalls :
         ffmpeg_calls[j].exit # 0 =>
           status = "failed" /\ job.error = <<"FFmpeg concat failed: stderr">>
    /\ compose_pc \in {"concat", "completed"} =>
         /\ Len(final_segments) = Cardinality(MergedOk)
         /\ \A k \in MergedOk : \E i \in DOMAIN final_segments :
                                  final_segments[i] = merge_tasks[k]
         /\ job.drop_reasons # <<>> =>
              Len(job.drop_reasons[1]) = Len(merge_tasks) - Cardinality(MergedOk)

C22_Witness ==
    /\ compose_pc = "completed"
    /\ \E k \in DOMAIN merge_tasks : merge_result[k] = "exc"
    /\ Len(final_segments) = 1
    /\ Len(job.drop_reasons[1]) = 1

\* C28: every segment handed to the concat demuxer was re-encoded by the
\* merge of its beat to the canonical codec and frame rate (libx264, 30 fps).
C28_SegmentsReencoded ==
    (compose_pc \in {"concat", "completed"} /\ Len(final_segments) >= 2) =>
      \A k \in MergedOk :
        \E j \in MergeCallsOf(merge_tasks[k]) :
          ffmpeg_calls[j].exit = 0 /\ ffmpeg_calls[j].rate = 30

-----------------------------------------------------------------------------
\* Claims about a render that leaves no file (SpecRender)

\* the tasks whose manim run exited 0 without leaving an .mp4
NoFileTasks ==
    { i \in FailedTasks :
        routcome[i].msg = render_segment_subprocess(tasks[i], "nofile").msg }

\* C25: a beat whose render exits successfully but leaves no media file is
\* recorded as a failed render of that beat: it is not in the success map and
\* its beat_id is a key of the error map.
C25_MissingOutputIsRenderFailure ==
    render_pc = "returned" =>
      \A i \in NoFileTasks :
        /\ tasks[i].seg_id \notin DOMAIN rendered
        /\ tasks[i].seg_id \in DOMAIN errors

-----------------------------------------------------------------------------
\* Claims about the terminal record of a job (SpecPipeline)

Stages == {"synthesis", "render", "merge"}

\* how many beats left the success set of a stage
StageDrops(stage) ==
    CASE stage = "synthesis" -> Cardinality(FailedSynthesis)
      [] stage = "render"    -> Len(tasks) - Cardinality(DOMAIN rendered)
      [] stage = "merge"     ->
           Cardinality({ k \in DOMAIN merge_tasks : merge_result[k] = "exc" })

\* how many reasons the record of the job holds for a stage: the entries of
\* render_errors, the entries of drop_reasons, and none for synthesis, whose
\* failures are never written to the record
RecordedReasons(stage) ==
    CASE stage = "synthesis" -> Cardinality({})
      [] stage = "render"    -> Cardinality(DOMAIN job.render_errors[1])
      [] stage = "merge"     -> Len(job.drop_reasons[1])

\* C23: the record of a completed job holds, for every stage, as many
\* reasons as beats were dropped at that stage.
C23_DropsAccounted ==
    compose_pc = "completed" =>
      \A stage \in Stages : RecordedReasons(stage) = StageDrops(stage)

-----------------------------------------------------------------------------
\* Claims about how a job ends (SpecJob)

\* the phase-level failures of _run_pipeline
OutlineExhausted == plan_pc = "failed" /\ outline_failures = MAX_OUTLINE_RETRIES

NothingRendered ==
    render_pc = "returned" /\ \A i \in DOMAIN routcome : ~routcome[i].ok

\* the gather over the merges has returned and every merge raised
NothingMerged ==
    /\ compose_pc = "failed"
    /\ merge_tasks # <<>>
    /\ \A k \in DOMAIN merge_tasks : merge_result[k] = "exc"

ConcatFailed == \E j \in ConcatCalls : ffmpeg_calls[j].exit # 0

PhaseFailure == OutlineExhausted \/ NothingRendered \/ NothingMerged \/ ConcatFailed

-----------------------------------------------------------------------------
\* Claims about termination of a job (SpecJobFair)

\* steps 1-2 have handed a validated plan to step 3
PlanHandedOver == plan_pc = "returned" /\ status = "generating_audio"

\* C24: every job leaves each phase: planning ends with a plan or a failed
\* job, and steps 3-8 end with the job completed or failed, even when a
\* collaborator never answers.
C24_JobReachesTerminalStatus ==
    <>(status \in {"completed", "failed"} \/ PlanHandedOver)

-----------------------------------------------------------------------------
\* Claims about the pure functions of the generator (SpecFunctions)

\* the call of fn has returned
HasReturned(fn) == fn_call # <<>> /\ fn_call[1].fn = fn /\ fn_call[1].out # <<>>

\* occurrences of ch among the first n characters of text
CountIn(text, ch, n) == Cardinality({ i \in 1..n : text[i] = ch })

\* the scan of the brace depth never goes negative and ends at 0
DepthScanPasses(text) ==
    /\ \A n \in 0..Len(text) : CountIn(text, "{", n) >= CountIn(text, "}", n)
    /\ CountIn(text, "{", Len(text)) = CountIn(text, "}", Len(text))

RemoveAt(text, i) == SubSeq(text, 1, i - 1) \o SubSeq(text, i + 1, Len(text))

\* C33: check_braces is true exactly when the depth scan never goes negative
\* and ends at 0, and a passing text with one closing brace removed fails.
C33_BraceScan ==
    HasReturned("check_braces") =>
      LET text == fn_call[1].arg IN
      /\ fn_call[1].out[1] = DepthScanPasses(text)
      /\ fn_call[1].out[1] =>
           \A i \in DOMAIN text : text[i] = "}" => ~check_braces(RemoveAt(text, i))

C33_Witness ==
    /\ HasReturned("check_braces")
    /\ fn_call[1].arg = <<"{", "{", "{", "}", "}", "}">>
    /\ fn_call[1].out = <<TRUE>>

\* the duplicate-id errors of an error list, and the other errors
DuplicateErrors(errs) == SelectSeq(errs, LAMBDA e : e[1] = "duplicate_beat_id")

SingleBeatErrors(errs) == SelectSeq(errs, LAMBDA e : e[1] # "duplicate_beat_id")

\* the positions of bs whose beat_id stands at an earlier position too
Repeats(bs) ==
    { i \in DOMAIN bs :
        bs[i].beat_id # "" /\ \E j \in 1..(i - 1) : bs[j].beat_id = bs[i].beat_id }

RECURSIVE ConcatBeatErrors(_)
ConcatBeatErrors(bs) ==
    IF bs = <<>> THEN <<>> ELSE validate_beat(Head(bs)) \o ConcatBeatErrors(Tail(bs))

\* C32: validate_beats returns nothing for the empty list; for any list it
\* returns one duplicate-id error per beat whose beat_id occurred earlier,
\* naming that id, wherever the repeats stand, and besides them the errors of
\* validate_beat for every beat, in order.
C32_DuplicatesAndBeatErrors ==
    HasReturned("validate_beats") =>
      LET bs   == fn_call[1].arg
          errs == fn_call[1].out[1]
      IN  /\ bs = <<>> => errs = <<>>
          /\ Len(DuplicateErrors(errs)) = Cardinality(Repeats(bs))
          /\ \A id \in { bs[i].beat_id : i \in Repeats(bs) } :
               Len(SelectSeq(DuplicateErrors(errs), LAMBDA e : e[2] = id))
                 = Cardinality({ i \in Repeats(bs) : bs[i].beat_id = id })
          /\ SingleBeatErrors(errs) = ConcatBeatErrors(bs)

C32_Witness ==
    /\ HasReturned("validate_beats")
    /\ Len(fn_call[1].arg) = 4
    /\ fn_call[1].arg[1].beat_id = "a" /\ fn_call[1].arg[2].beat_id = "b"
    /\ fn_call[1].arg[3].beat_id = "a" /\ fn_call[1].arg[4].beat_id = "a"
    /\ Len(DuplicateErrors(fn_call[1].out[1])) = 2
    /\ Len(SingleBeatErrors(fn_call[1].out[1])) = 1

\* C34: stripping the fences of a stripped text returns it unchanged.
C34_StripIdempotent ==
    (HasReturned("strip_fences") /\ fn_call[1].again # <<>>) =>
      fn_call[1].again = fn_call[1].out

C34_Witness ==
    /\ HasReturned("strip_fences") /\ fn_call[1].again # <<>>
    /\ StartsWith(fn_call[1].arg, FENCE \o <<"j", "s", "o", "n", " ">>)
    /\ fn_call[1].out = << <<"x">> >>

\* the language tags an opening fence may carry: none, json, another word
FenceTags == { <<>>, <<"j", "s", "o", "n">>, <<"x">> }

\* text is a fence with tag, whitespace, a payload and the closing fence
IsFenced(text, tag) ==
    /\ Len(text) >= Len(tag) + 7
    /\ StartsWith(text, FENCE \o tag \o <<" ">>)
    /\ SubSeq(text, Len(text) - 2, Len(text)) = FENCE

Payload(text, tag) == SubSeq(text, Len(tag) + 5, Len(text) - 3)

\* C35: of a response wrapped in an opening fence, with or without a
\* language tag, and a closing fence, the stripper returns the payload
\* between them, less its surrounding whitespace.
C35_FencedPayloadReturned ==
    HasReturned("strip_fences") =>
      \A tag \in FenceTags :
        IsFenced(fn_call[1].arg, tag) =>
          fn_call[1].out[1] = Strip(Payload(fn_call[1].arg, tag))

\* the wrapper keys of an object that hold a list, as positions in WRAPPER_KEYS
ListKeys(obj) ==
    { k \in 1..Len(WRAPPER_KEYS) : ObjGet(obj.pairs, WRAPPER_KEYS[k]).shape = "array" }

\* C31: of a response that parses to an object, the beat list is the list
\* under the first wrapper key (beats, chapter_beats, items, data) that holds
\* one, and an object with no list under any wrapper key fails the attempt.
C31_WrapperKeysOrReject ==
    (HasReturned("chapter_attempt") /\ fn_call[1].arg.shape = "object") =>
      LET obj == fn_call[1].arg
          out == fn_call[1].out[1]
      IN  IF ListKeys(obj) = {}
          THEN ~out.ok
          ELSE LET list == ObjGet(obj.pairs, WRAPPER_KEYS[SetMin(ListKeys(obj))]).items
               IN  /\ out.ok <=> validate_beats(list) = <<>>
                   /\ out.ok => out.beats = list

(***************************************************************************)
(* Claims about what a chapter contributes to the plan (SpecPlan)          *)
(***************************************************************************)
\* C36: every chapter whose coroutine has returned hands at least one beat
\* to the assembly: a validated list from the completion service or the
\* fallback beat, never an empty list.
C36_EveryChapterContributes ==
    \A i \in DOMAIN ch_result :
      ch_result[i].returned => ch_result[i].beats # <<>>

(***************************************************************************)
(* Claims about the length of a merged segment (SpecComposer)              *)
(***************************************************************************)
\* the effective duration main.py gives a beat whose clip lasts audio_dur
\* half-seconds when settings.min_beat_duration is m seconds
EffectiveHalfSeconds(audio_dur, m) == Max2(audio_dur, 2 * m)

\* C37: when a beat's audio is merged with a video rendered at the beat's
\* effective duration, the merged segment lasts at least that duration.  A
\* padded segment lasts as long as the audio, which is longer than the
\* video; a trimmed one is cut by -t and lasts no longer than t
\* half-seconds, so t must reach the effective duration.
C37_SegmentKeepsEffectiveDuration ==
    (Called({"merge_segment"}) /\ comp_call[1].audio = "file"
       /\ ~comp_call[1].out.raised) =>
      \A m \in MinDurations :
        LET c == comp_call[1] IN
        (c.video_dur = EffectiveHalfSeconds(c.audio_dur, m) /\ c.out.via = "trim") =>
          c.out.t >= EffectiveHalfSeconds(c.audio_dur, m)

(***************************************************************************)
(* Claims about repeated narration within one run (SpecAudio)              *)
(***************************************************************************)
\* the calls of tts.generate made for the stripped narration text, as
\* (beat, position in the beat's calls)
SynthesisCallsFor(text) ==
    { c \in UNION { {i} \X DOMAIN acalls[i] : i \in DOMAIN acalls } :
        /\ acalls[c[1]][c[2]].call = "generate"
        /\ acalls[c[1]][c[2]].key = text }

\* C38: within one run of generate_all_audio the synthesis service is called
\* at most once for a (text, voice, language) key; voice and language are
\* the job's, so the key is decided by the stripped text.
C38_SynthesisOncePerKey ==
    \A i \in DOMAIN abeats :
      Cardinality(SynthesisCallsFor(Strip(abeats[i].narration))) <= 1

(***************************************************************************)
(* Claims about two jobs sharing the cache directory (SpecSharedCache)     *)
(***************************************************************************)
\* both jobs have finished with their caches
BothJobsDone == \A j \in SharedJobs : job_caches[j].pc = "done"

\* AudioCache(cache_dir).get(t) of a cache constructed now is a hit
FreshCacheHit(t) == CacheHit(manifest_file, blobs, KeyOf(t))

\* C39: once both jobs have finished, every triple either of them put, its
\* blob still in the directory, is a hit for a cache opened afresh.
C39_NoEntryLost ==
    (job_caches # <<>> /\ BothJobsDone) =>
      \A t \in DOMAIN stored : FreshCacheHit(t)

(***************************************************************************)
(* Claims about the status of a job (SpecJobReturning)                     *)
(***************************************************************************)
\* the statuses _run_pipeline sets on its way to the completed record
STATUS_ORDER == <<"queued", "planning", "generating_audio", "building_scenes",
                  "rendering", "composing", "uploading", "completed">>

StatusRank(s) == CHOOSE k \in DOMAIN STATUS_ORDER : STATUS_ORDER[k] = s

TerminalStatuses == {"completed", "failed"}

\* a later status of the order, or failed from a status that is not terminal
MovesForward(from, to) ==
    /\ from \notin TerminalStatuses
    /\ \/ to = "failed"
       \/ /\ to \in { STATUS_ORDER[k] : k \in DOMAIN STATUS_ORDER }
          /\ StatusRank(from) < StatusRank(to)

====
